---- MODULE Spec2Model ----
(***************************************************************************)
(* A model of the macro engine of marketplace_server.py: the assembly      *)
(* interpreter (MacroEngine.run_steps), the component runner               *)
(* (MacroEngine.run_macro_steps), the adaptive wait (smart_wait) and the   *)
(* packaging operations (export_macro / import_macro / export_job /        *)
(* import_job), together with the two App handlers that start and stop a   *)
(* run.                                                                    *)
(*                                                                         *)
(* Text is a sequence of one-character strings, so that str.format,        *)
(* str.replace, str.split and str.strip are computed as Python computes    *)
(* them.  An item of a count loop is held in its str() form: every         *)
(* consumer of an item (format, str(item), the clipboard) converts it.     *)
(***************************************************************************)
EXTENDS Integers, Sequences, FiniteSets, TLC

(* ------------------------------ bounds -------------------------------- *)

\* the largest repeat count written in a joint_start step
MaxCount == 2
\* the number of worker threads the race specification may start
MaxRuns == 2
\* the number of pieces a templated step value is written from
MaxPieces == 3

\* packaging calls made in one behaviour
MaxCalls == 2

\* the longest smart_wait timeout and polling interval, in clock ticks
MaxTimeout == 4

MaxInterval == 2

(* ------------------------------ text ---------------------------------- *)

Digit == <<"0", "1", "2", "3", "4", "5", "6", "7", "8", "9">>

DigitSet == {Digit[k] : k \in 1..10}

\* str(n) for a natural number
RECURSIVE Str(_)
Str(n) ==
    IF n < 10 THEN <<Digit[n + 1]>>
    ELSE Str(n \div 10) \o <<Digit[(n % 10) + 1]>>

DigitVal(c) == (CHOOSE k \in 1..10 : Digit[k] = c) - 1

\* int(s) for a string of decimal digits
RECURSIVE IntOf(_)
IntOf(s) ==
    IF s = <<>> THEN 0
    ELSE IntOf(SubSeq(s, 1, Len(s) - 1)) * 10 + DigitVal(s[Len(s)])

\* str.isdigit(): non-empty and every character a digit
IsDigit(s) == s /= <<>> /\ \A k \in 1..Len(s) : s[k] \in DigitSet

White == {" ", "\n"}

\* str.strip()
RECURSIVE LStrip(_)
LStrip(s) == IF s /= <<>> /\ Head(s) \in White THEN LStrip(Tail(s)) ELSE s

RECURSIVE RStrip(_)
RStrip(s) ==
    IF s /= <<>> /\ s[Len(s)] \in White
    THEN RStrip(SubSeq(s, 1, Len(s) - 1))
    ELSE s

Strip(s) == RStrip(LStrip(s))

\* str.split("\n"): the pieces between the line breaks, empty ones kept
RECURSIVE SplitNL(_, _)
SplitNL(s, cur) ==
    IF s = <<>> THEN <<cur>>
    ELSE IF Head(s) = "\n" THEN <<cur>> \o SplitNL(Tail(s), <<>>)
    ELSE SplitNL(Tail(s), Append(cur, Head(s)))

RECURSIVE KeepNonEmpty(_)
KeepNonEmpty(ls) ==
    IF ls = <<>> THEN <<>>
    ELSE IF Strip(Head(ls)) /= <<>>
         THEN <<Strip(Head(ls))>> \o KeepNonEmpty(Tail(ls))
         ELSE KeepNonEmpty(Tail(ls))

\* [ln.strip() for ln in raw_text.split("\n") if ln.strip()]
ListLines(val) ==
    LET raw_text == Strip(val)
    IN IF raw_text /= <<>> THEN KeepNonEmpty(SplitNL(raw_text, <<>>)) ELSE <<>>

\* sval.lower().endswith(".xlsx") or ".xls": the extension is one token
IsExcelPath(s) == s /= <<>> /\ s[Len(s)] \in {".xlsx", ".xls"}

(* --------------------------- str.format ------------------------------- *)

\* the position of the first occurrence of character c in s, 0 when absent
RECURSIVE FirstPos(_, _, _)
FirstPos(s, c, k) ==
    IF k > Len(s) THEN 0
    ELSE IF s[k] = c THEN k
    ELSE FirstPos(s, c, k + 1)

HasChar(s, c) == FirstPos(s, c, 1) /= 0

\* a failed str.format call (KeyError, IndexError, ValueError)
FormatError == [ok |-> FALSE, text |-> <<>>]

FormatJoin(head, rest) ==
    IF rest.ok THEN [ok |-> TRUE, text |-> head \o rest.text] ELSE FormatError

\* sval.format(**ctx): "{{" and "}}" are escapes, "{name}" is looked up in
\* ctx, a single brace, an empty or numeric field name (a positional field
\* with no positional argument) and an unknown name raise.
RECURSIVE Format(_, _)
Format(s, ctx) ==
    IF s = <<>> THEN [ok |-> TRUE, text |-> <<>>]
    ELSE IF s[1] = "{" THEN
        IF Len(s) >= 2 /\ s[2] = "{"
        THEN FormatJoin(<<"{">>, Format(SubSeq(s, 3, Len(s)), ctx))
        ELSE LET close == FirstPos(s, "}", 2)
                 name == SubSeq(s, 2, close - 1)
             IN IF close = 0 THEN FormatError
                ELSE IF HasChar(name, "{") THEN FormatError
                ELSE IF name = <<>> \/ IsDigit(name) THEN FormatError
                ELSE IF name \notin DOMAIN ctx THEN FormatError
                ELSE FormatJoin(ctx[name],
                                Format(SubSeq(s, close + 1, Len(s)), ctx))
    ELSE IF s[1] = "}" THEN
        IF Len(s) >= 2 /\ s[2] = "}"
        THEN FormatJoin(<<"}">>, Format(SubSeq(s, 3, Len(s)), ctx))
        ELSE FormatError
    ELSE FormatJoin(<<s[1]>>, Format(Tail(s), ctx))

\* whether pat occurs in s at position k
MatchAt(s, pat, k) ==
    /\ k + Len(pat) - 1 <= Len(s)
    /\ SubSeq(s, k, k + Len(pat) - 1) = pat

\* pat in s
Contains(s, pat) == \E k \in 1..Len(s) : MatchAt(s, pat, k)

\* s.replace(pat, by) for a non-empty pat: every occurrence, left to right
RECURSIVE Replace(_, _, _)
Replace(s, pat, by) ==
    IF s = <<>> THEN <<>>
    ELSE IF MatchAt(s, pat, 1)
         THEN by \o Replace(SubSeq(s, Len(pat) + 1, Len(s)), pat, by)
         ELSE <<s[1]>> \o Replace(Tail(s), pat, by)

\* run_macro_steps, "context 적용": a value holding both braces is formatted
\* against the context, and kept as it is when formatting raises
Substitute(raw_val, ctx) ==
    IF HasChar(raw_val, "{") /\ HasChar(raw_val, "}")
    THEN LET r == Format(raw_val, ctx)
         IN IF r.ok THEN r.text ELSE raw_val
    ELSE raw_val

(* ------------------------------ state --------------------------------- *)

VARIABLES
    \* MacroEngine
    macros,             \* self.macros: component name -> step list
    jobs,               \* self.jobs: assembly name -> step list
    context,            \* self.context: variable name -> text
    is_running,         \* self.is_running
    \* App
    current_job_steps,  \* the assembly line being edited and run
    current_macro,      \* the component being edited and tested
    btn_emergency_stop_macro, \* state of the stop button of the component editor
    btn_emergency_stop, \* state of the emergency stop button
    \* one entry per worker thread started by run_current_job
    phase,              \* where the thread is
    i,                  \* run_steps: index of the next step (from 1)
    loop_stack,         \* run_steps: the stack of loop frames
    m_name,             \* run_macro_steps: the component being run
    idx,                \* run_macro_steps: index of its next step (from 1)
    \* history
    trace,              \* per worker: every step executed, with the context it saw
    log,                \* the input actions and status messages issued, in order
    stopped,            \* per worker: steps executed when a stop was requested, -1 if none
    \* the file system and the clock, as the packaging operations see them
    images,             \* image files: path -> content
    archives,           \* archive files: path -> content
    scratch,            \* the scratch directories that exist
    saved_macros,       \* my_macros_v16.json
    saved_jobs,         \* my_jobs_v16.json
    clock,              \* time.time()
    \* history
    result,             \* the last packaging call and its outcome
    calls,              \* the number of packaging calls made
    \* smart_wait
    wait,               \* the locals of the smart_wait call, the frames it captured and
                        \* the number it had captured when a stop was requested
    \* MarketplaceAPI and the purchase dialog
    market,             \* user_token, points, user_info.json and the last API call
    buy,                \* where the purchase flow is, what it has chosen and the
                        \* message box that reported its outcome
    \* the input capability (pyautogui, pyperclip)
    raising,            \* the step types whose input action raises an exception
    \* packaging calls that overlap
    pkg_ops,            \* each call's position, operation, scratch directory and outcome
    tree,               \* the scratch directories on disk and the files in them
    \* the objects of the two editors
    shared              \* the list objects and the step objects (dicts), and which
                        \* of them each store entry and each editor holds

pkgVars == <<images, archives, scratch, saved_macros, saved_jobs, clock, result, calls>>

\* what no step of a run touches
\* the component editor
testVars == <<current_macro, btn_emergency_stop_macro>>

shopVars == <<market, buy>>

restVars == <<macros, jobs, pkgVars, wait, testVars, shopVars, raising, pkg_ops, tree,
              shared>>

stepVars == <<context, is_running, current_job_steps, btn_emergency_stop,
              phase, i, loop_stack, m_name, idx, trace, log, stopped, raising,
              shared>>

runVars == <<stepVars, pkg_ops, tree>>

Runs == 1..MaxRuns

(* --------------------------- program inputs --------------------------- *)

JS(v) == [type |-> "joint_start", value |-> v]
JL(v) == [type |-> "joint_list", value |-> v]
JE == [type |-> "joint_end", value |-> <<>>]
CM(n) == [type |-> "call_macro", value |-> n]
AT(t, v) == [type |-> t, value |-> v]

\* the spreadsheets on disk: one with rows, one without rows, one unreadable;
\* any other path does not exist
FullSheet == <<"f", ".xlsx">>
EmptySheet == <<"e", ".xlsx">>
BadSheet == <<"c", ".xls">>
MissingSheet == <<"n", ".xlsx">>

SheetExists(path) == path \in {FullSheet, EmptySheet, BadSheet}

SheetReadable(path) == path \in {FullSheet, EmptySheet}

\* pd.read_excel(path).fillna("").to_dict("records")
SheetRows(path) ==
    IF path = FullSheet
    THEN [k \in 1..MaxCount |-> (<<"x">> :> (<<"r">> \o Str(k)))]
    ELSE <<>>

\* the component store the runs start with
Macros0 ==
    (<<"a">> :> <<AT("type", <<"{", "i", "}">>)>>)
    @@ (<<"b">> :> <<AT("key", <<"{", "i", "}", "-", "{", "i", "2", "}">>),
                     AT("type", <<"{", "x", "}">>)>>)

StartValues ==
    {Str(n) : n \in 0..MaxCount}
    \cup {FullSheet, EmptySheet, BadSheet, MissingSheet, <<"a">>}

ListValues == {<<"A", "\n", " ", "\n", "B">>, <<" ", "\n">>}

\* the steps a letter of a skeleton stands for
StepsOf(letter) ==
    CASE letter = "S" -> {JS(v) : v \in StartValues}
      [] letter = "L" -> {JL(v) : v \in ListValues}
      [] letter = "E" -> {JE}
      [] letter = "a" -> {CM(<<"a">>)}
      [] letter = "b" -> {CM(<<"b">>)}
      [] letter = "z" -> {CM(<<"z">>)}
      [] letter = "k" -> {AT("key", <<"k">>)}

RECURSIVE Fill(_)
Fill(sk) ==
    IF sk = <<>> THEN {<<>>}
    ELSE {<<h>> \o t : h \in StepsOf(Head(sk)), t \in Fill(Tail(sk))}

\* the shapes of the assembly lines that are run: single, nested, unbalanced
Skeletons ==
    { <<"S", "a", "E", "b">>,
      <<"L", "a", "E">>,
      <<"S", "S", "a", "E", "b", "E", "a">>,
      <<"L", "S", "b", "E", "E">>,
      <<"S", "L", "b", "E", "E">>,
      <<"L", "L", "L", "b", "E", "E", "E">>,
      <<"E", "S", "a">>,
      <<"S", "a", "E", "E", "a">>,
      <<"a", "z", "k", "b">> }

Programs == UNION {Fill(sk) : sk \in Skeletons}

(* ----------------------- run_steps: the interpreter ------------------- *)

Status(tag) == <<"status", <<tag>>>>

\* robust_hotkey("ctrl", "a"); pyperclip.copy(text); robust_hotkey("ctrl", "v")
AutoPaste(text) == << <<"hotkey", <<"a">>>>, <<"copy", text>>, <<"hotkey", <<"v">>>> >>

\* f"i{n}"
VarName(n) == <<"i">> \o Str(n)

\* a pre-run check that finds every step list balanced
NoOpenJoints(steps) == 0

\* the pre-run count of loop starts minus loop ends
RECURSIVE OpenJoints(_)
OpenJoints(steps) ==
    IF steps = <<>> THEN 0
    ELSE (IF Head(steps).type \in {"joint_start", "joint_list"} THEN 1
          ELSE IF Head(steps).type = "joint_end" THEN -1
          ELSE 0) + OpenJoints(Tail(steps))

\* joint_start: the data list of a value, and whether its items are records
LoopData(sval) ==
    IF IsExcelPath(sval)
    THEN IF SheetExists(sval) /\ SheetReadable(sval)
         THEN [data |-> SheetRows(sval), is_dict |-> TRUE]
         ELSE [data |-> <<>>, is_dict |-> FALSE]
    ELSE IF IsDigit(sval)
    THEN [data |-> [k \in 1..IntOf(sval) |-> Str(k)], is_dict |-> FALSE]
    ELSE [data |-> <<>>, is_dict |-> FALSE]

\* the binding made when a frame is pushed; depth is len(loop_stack) after the push
BindStart(ctx, item, is_dict, depth) ==
    IF is_dict THEN item @@ ctx
    ELSE IF depth > 1
         THEN (<<"i">> :> item) @@ (VarName(depth) :> item) @@ ctx
         ELSE (<<"i">> :> item) @@ ctx

\* a joint_end that names the level variable after the frame's level
\* instead of its depth
BindEndByLevel(ctx, item, curr) ==
    IF curr.is_dict THEN item @@ ctx
    ELSE IF curr.level > 0
         THEN (<<"i">> :> item) @@ (VarName(curr.level) :> item) @@ ctx
         ELSE (<<"i">> :> item) @@ ctx

\* the binding made by joint_end for the next item of frame curr
BindEnd(ctx, item, curr) ==
    IF curr.is_dict THEN item @@ ctx
    ELSE IF curr.level > 0
         THEN (<<"i">> :> item) @@ (VarName(curr.level + 1) :> item) @@ ctx
         ELSE (<<"i">> :> item) @@ ctx

\* the loop condition of run_steps holds and the step at i is of type t
AtStep(w, types) ==
    /\ phase[w] = "loop"
    /\ i[w] <= Len(current_job_steps)
    /\ is_running
    /\ current_job_steps[i[w]].type \in types

Visit(w, sub) == [pc |-> i[w], sub |-> sub, ctx |-> context]

\* what every assembly step does after its own effect: i += 1
StepDone(w, newI, newStack, events) ==
    /\ i' = [i EXCEPT ![w] = newI + 1]
    /\ loop_stack' = [loop_stack EXCEPT ![w] = newStack]
    /\ trace' = [trace EXCEPT ![w] = Append(@, Visit(w, 0))]
    /\ log' = log \o events
    /\ UNCHANGED <<is_running, current_job_steps, btn_emergency_stop,
                   phase, m_name, idx, stopped, restVars>>

\* a joint_start whose frames all carry level 0
JointStartFlat(w) ==
    /\ AtStep(w, {"joint_start"})
    /\ LET ld == LoopData(current_job_steps[i[w]].value)
           pushed == Append(loop_stack[w],
                            [start |-> i[w], data |-> ld.data, idx |-> 0,
                             is_dict |-> ld.is_dict, level |-> 0])
       IN IF ld.data /= <<>>
          THEN /\ context' = BindStart(context, ld.data[1], ld.is_dict, Len(pushed))
               /\ StepDone(w, i[w], pushed, <<>>)
          ELSE /\ context' = context
               /\ StepDone(w, i[w], loop_stack[w], <<Status("no data")>>)

JointStart(w) ==
    /\ AtStep(w, {"joint_start"})
    /\ LET ld == LoopData(current_job_steps[i[w]].value)
           pushed == Append(loop_stack[w],
                            [start |-> i[w], data |-> ld.data, idx |-> 0,
                             is_dict |-> ld.is_dict, level |-> Len(loop_stack[w])])
       IN IF ld.data /= <<>>
          THEN /\ context' = BindStart(context, ld.data[1], ld.is_dict, Len(pushed))
               /\ StepDone(w, i[w], pushed, <<>>)
          ELSE /\ context' = context
               /\ StepDone(w, i[w], loop_stack[w], <<Status("no data")>>)

\* a joint_list that binds its first line without pasting it
JointListSilent(w) ==
    /\ AtStep(w, {"joint_list"})
    /\ LET lines == ListLines(current_job_steps[i[w]].value)
           pushed == Append(loop_stack[w],
                            [start |-> i[w], data |-> lines, idx |-> 0,
                             is_dict |-> FALSE, level |-> Len(loop_stack[w])])
       IN IF lines /= <<>>
          THEN /\ context' = BindStart(context, lines[1], FALSE, Len(pushed))
               /\ StepDone(w, i[w], pushed, <<>>)
          ELSE /\ context' = context
               /\ StepDone(w, i[w], loop_stack[w], <<Status("no lines")>>)

\* an input action of a loop step raises: nothing catches the exception, so
\* it ends run_steps and the worker's _run where they are
Raised(w, newStack) ==
    /\ phase' = [phase EXCEPT ![w] = "aborted"]
    /\ loop_stack' = [loop_stack EXCEPT ![w] = newStack]
    /\ trace' = [trace EXCEPT ![w] = Append(@, Visit(w, 0))]
    /\ UNCHANGED <<is_running, current_job_steps, btn_emergency_stop, i,
                   m_name, idx, log, stopped, restVars>>

JointList(w) ==
    /\ AtStep(w, {"joint_list"})
    /\ LET lines == ListLines(current_job_steps[i[w]].value)
           pushed == Append(loop_stack[w],
                            [start |-> i[w], data |-> lines, idx |-> 0,
                             is_dict |-> FALSE, level |-> Len(loop_stack[w])])
       IN IF lines /= <<>>
          THEN /\ context' = BindStart(context, lines[1], FALSE, Len(pushed))
               /\ IF "joint_list" \in raising
                  THEN Raised(w, pushed)
                  ELSE StepDone(w, i[w], pushed, AutoPaste(lines[1]))
          ELSE /\ context' = context
               /\ StepDone(w, i[w], loop_stack[w], <<Status("no lines")>>)

\* a joint_end whose jump lands on the loop start itself
JointEndRerunningStart(w) ==
    /\ AtStep(w, {"joint_end"})
    /\ IF loop_stack[w] /= <<>>
       THEN LET top == Len(loop_stack[w])
                curr == [loop_stack[w][top] EXCEPT !.idx = @ + 1]
            IN IF curr.idx < Len(curr.data)
               THEN LET item == curr.data[curr.idx + 1]
                    IN /\ context' = BindEnd(context, item, curr)
                       /\ StepDone(w, curr.start - 1,
                                   [loop_stack[w] EXCEPT ![top] = curr],
                                   IF curr.is_dict THEN <<>> ELSE AutoPaste(item))
               ELSE /\ context' = context
                    /\ StepDone(w, i[w], SubSeq(loop_stack[w], 1, top - 1), <<>>)
       ELSE /\ context' = context
            /\ StepDone(w, i[w], loop_stack[w], <<Status("no frame")>>)

\* a joint_end that leaves an exhausted frame on the stack
JointEndKeepingFrame(w) ==
    /\ AtStep(w, {"joint_end"})
    /\ IF loop_stack[w] /= <<>>
       THEN LET top == Len(loop_stack[w])
                curr == [loop_stack[w][top] EXCEPT !.idx = @ + 1]
            IN IF curr.idx < Len(curr.data)
               THEN LET item == curr.data[curr.idx + 1]
                    IN /\ context' = BindEnd(context, item, curr)
                       /\ StepDone(w, curr.start,
                                   [loop_stack[w] EXCEPT ![top] = curr],
                                   IF curr.is_dict THEN <<>> ELSE AutoPaste(item))
               ELSE /\ context' = context
                    /\ StepDone(w, i[w], [loop_stack[w] EXCEPT ![top] = curr], <<>>)
       ELSE /\ context' = context
            /\ StepDone(w, i[w], loop_stack[w], <<Status("no frame")>>)

\* a joint_end that waits for a frame when it finds the stack empty
JointEndBlocking(w) ==
    /\ AtStep(w, {"joint_end"})
    /\ loop_stack[w] /= <<>>
    /\ LET top == Len(loop_stack[w])
           curr == [loop_stack[w][top] EXCEPT !.idx = @ + 1]
       IN IF curr.idx < Len(curr.data)
          THEN LET item == curr.data[curr.idx + 1]
               IN /\ context' = BindEnd(context, item, curr)
                  /\ StepDone(w, curr.start,
                              [loop_stack[w] EXCEPT ![top] = curr],
                              IF curr.is_dict THEN <<>> ELSE AutoPaste(item))
          ELSE /\ context' = context
               /\ StepDone(w, i[w], SubSeq(loop_stack[w], 1, top - 1), <<>>)

JointEnd(w) ==
    /\ AtStep(w, {"joint_end"})
    /\ IF loop_stack[w] /= <<>>
       THEN LET top == Len(loop_stack[w])
                curr == [loop_stack[w][top] EXCEPT !.idx = @ + 1]
            IN IF curr.idx < Len(curr.data)
               THEN LET item == curr.data[curr.idx + 1]
                    IN /\ context' = BindEnd(context, item, curr)
                       /\ IF ~curr.is_dict /\ "joint_end" \in raising
                          THEN Raised(w, [loop_stack[w] EXCEPT ![top] = curr])
                          ELSE StepDone(w, curr.start,
                                        [loop_stack[w] EXCEPT ![top] = curr],
                                        IF curr.is_dict THEN <<>> ELSE AutoPaste(item))
               ELSE /\ context' = context
                    /\ StepDone(w, i[w], SubSeq(loop_stack[w], 1, top - 1), <<>>)
       ELSE /\ context' = context
            /\ StepDone(w, i[w], loop_stack[w], <<Status("no frame")>>)

\* a call_macro that ends the run when the component is not in the store
CallMacroOrAbort(w) ==
    /\ AtStep(w, {"call_macro"})
    /\ LET name == current_job_steps[i[w]].value
       IN /\ IF name \in DOMAIN macros
             THEN /\ phase' = [phase EXCEPT ![w] = "macro"]
                  /\ m_name' = [m_name EXCEPT ![w] = name]
                  /\ idx' = [idx EXCEPT ![w] = 1]
                  /\ UNCHANGED <<i, log>>
             ELSE /\ i' = [i EXCEPT ![w] = Len(current_job_steps) + 1]
                  /\ log' = Append(log, Status("no macro"))
                  /\ UNCHANGED <<phase, m_name, idx>>
          /\ trace' = [trace EXCEPT ![w] = Append(@, Visit(w, 0))]
          /\ UNCHANGED <<context, is_running, current_job_steps,
                         btn_emergency_stop, loop_stack, stopped, restVars>>

\* a call_macro that runs the component under an empty context
CallMacroFreshContext(w) ==
    /\ AtStep(w, {"call_macro"})
    /\ LET name == current_job_steps[i[w]].value
       IN IF name \in DOMAIN macros
          THEN /\ phase' = [phase EXCEPT ![w] = "macro"]
               /\ m_name' = [m_name EXCEPT ![w] = name]
               /\ idx' = [idx EXCEPT ![w] = 1]
               /\ trace' = [trace EXCEPT ![w] = Append(@, Visit(w, 0))]
               /\ context' = <<>>
               /\ UNCHANGED <<is_running, current_job_steps,
                              btn_emergency_stop, i, loop_stack, log, stopped,
                              restVars>>
          ELSE /\ context' = context
               /\ StepDone(w, i[w], loop_stack[w], <<Status("no macro")>>)

\* call_macro: run_macro_steps is entered when the component exists
CallMacro(w) ==
    /\ AtStep(w, {"call_macro"})
    /\ LET name == current_job_steps[i[w]].value
       IN IF name \in DOMAIN macros
          THEN /\ phase' = [phase EXCEPT ![w] = "macro"]
               /\ m_name' = [m_name EXCEPT ![w] = name]
               /\ idx' = [idx EXCEPT ![w] = 1]
               /\ trace' = [trace EXCEPT ![w] = Append(@, Visit(w, 0))]
               /\ UNCHANGED <<context, is_running, current_job_steps,
                              btn_emergency_stop, i, loop_stack, log, stopped,
                              restVars>>
          ELSE /\ context' = context
               /\ StepDone(w, i[w], loop_stack[w], <<Status("no macro")>>)

\* a step of any other type falls through the if/elif chain of run_steps
OtherStep(w) ==
    /\ phase[w] = "loop"
    /\ i[w] <= Len(current_job_steps)
    /\ is_running
    /\ current_job_steps[i[w]].type
         \notin {"joint_start", "joint_list", "joint_end", "call_macro"}
    /\ context' = context
    /\ StepDone(w, i[w], loop_stack[w], <<>>)

(* ------------------- run_macro_steps: the component runner ------------ *)

\* sval.split(",")
RECURSIVE SplitComma(_, _)
SplitComma(s, cur) ==
    IF s = <<>> THEN <<cur>>
    ELSE IF Head(s) = "," THEN <<cur>> \o SplitComma(Tail(s), <<>>)
    ELSE SplitComma(Tail(s), Append(cur, Head(s)))

\* whether int(s) succeeds: optional blanks around an optionally signed number
IsIntText(s) ==
    LET t == Strip(s)
    IN IF t /= <<>> /\ t[1] \in {"-", "+"} THEN IsDigit(Tail(t)) ELSE IsDigit(t)

\* int(s)
IntVal(s) ==
    LET t == Strip(s)
    IN IF t[1] = "-" THEN 0 - IntOf(Tail(t))
       ELSE IF t[1] = "+" THEN IntOf(Tail(t))
       ELSE IntOf(t)

\* str(n) for an integer
IntStr(n) == IF n < 0 THEN <<"-">> \o Str(0 - n) ELSE Str(n)

\* map(int, sval.split(",")) unpacked into n names: it raises unless there
\* are exactly n parts and each is an integer
CoordsOk(sval, n) ==
    LET parts == SplitComma(sval, <<>>)
    IN Len(parts) = n /\ \A k \in 1..n : IsIntText(parts[k])

Coord(sval, k) == IntVal(SplitComma(sval, <<>>)[k])

CoordText(sval, from, to) ==
    IF from = to THEN IntStr(Coord(sval, from))
    ELSE IntStr(Coord(sval, from)) \o <<",">> \o IntStr(Coord(sval, from + 1))

\* the reference images on disk when the program starts: path -> content;
\* a path is the sequence of its components
Images0 ==
    (<<"images", "b.png">> :> "B1")
    @@ (<<"d", "b.png">> :> "B2")
    @@ (<<"images", "c.png">> :> "C1")

\* get_location: "x,y" coordinates, else an image located on the screen;
\* onscreen says whether locateCenterOnScreen finds the image
Located(val, onscreen) ==
    IF HasChar(val, ",")
    THEN CoordsOk(val, 2)
    ELSE val \in DOMAIN images /\ onscreen

\* the input actions one component step issues; an exception raised by the
\* action is caught and reported
Dispatch(atype, sval, ctx, onscreen) ==
    CASE atype = "cmd_a" -> << <<"hotkey", <<"a">>>> >>
      [] atype = "cmd_c" -> << <<"hotkey", <<"c">>>> >>
      [] atype = "cmd_v" -> << <<"hotkey", <<"v">>>> >>
      [] atype = "browser" -> << <<"open", sval>> >>
      [] atype = "click" ->
            IF Located(sval, onscreen)
            THEN << <<"click", IF HasChar(sval, ",") THEN CoordText(sval, 1, 2) ELSE sval>> >>
            ELSE << Status("not found") >>
      [] atype \in {"click_xy", "right_click"} ->
            IF CoordsOk(sval, 2)
            THEN << <<atype, CoordText(sval, 1, 2)>> >>
            ELSE << Status("error") >>
      [] atype = "drag" ->
            IF CoordsOk(sval, 4)
            THEN << <<"moveTo", CoordText(sval, 1, 2)>>, <<"dragTo", CoordText(sval, 3, 4)>> >>
            ELSE << Status("error") >>
      [] atype = "ocr_area" ->
            IF ~CoordsOk(sval, 4) THEN << Status("error") >>
            ELSE IF Coord(sval, 1) /= Coord(sval, 3) /\ Coord(sval, 2) /= Coord(sval, 4)
            THEN << <<"grab", sval>> >>
            ELSE << Status("bad area") >>
      [] atype = "type" ->
            IF <<"i">> \in DOMAIN ctx /\ Contains(sval, <<"{", "i", "}">>)
            THEN << <<"hotkey", <<"a">>>>,
                    <<"copy", Replace(sval, <<"{", "i", "}">>, ctx[<<"i">>])>>,
                    <<"hotkey", <<"v">>>> >>
            ELSE << <<"copy", sval>>, <<"hotkey", <<"v">>>> >>
      [] atype = "key" -> << <<"press", sval>> >>
      [] atype = "wait" ->
            IF IsDigit(sval) THEN << <<"sleep", sval>> >> ELSE << Status("error") >>
      [] atype = "smart_wait" -> << <<"smart_wait", sval>> >>
      [] OTHER -> <<>>

\* a runner that reports a loop or invoke step it meets in a component
IssuedOrRejected(atype, events) ==
    IF atype \in {"joint_start", "joint_list", "joint_end", "call_macro"}
    THEN << Status("error") >>
    ELSE IF atype \in raising /\ \E k \in 1..Len(events) : events[k][1] /= "status"
    THEN << Status("error") >>
    ELSE events

\* what a step issues when the input capability may raise: the exception
\* of the first input action is caught and reported
Issued(atype, events) ==
    IF atype \in raising /\ \E k \in 1..Len(events) : events[k][1] /= "status"
    THEN << Status("error") >>
    ELSE events

\* a component runner that follows an invoke-component step into the named
\* component
MacroStepRecursing(w) ==
    /\ phase[w] = "macro"
    /\ idx[w] <= Len(macros[m_name[w]])
    /\ is_running
    /\ LET step == macros[m_name[w]][idx[w]]
           sval == Substitute(step.value, context)
       IN IF step.type = "call_macro" /\ step.value \in DOMAIN macros
          THEN /\ m_name' = [m_name EXCEPT ![w] = step.value]
               /\ idx' = [idx EXCEPT ![w] = 1]
               /\ UNCHANGED <<log, trace>>
          ELSE /\ \E onscreen \in (IF step.type = "click" THEN BOOLEAN ELSE {TRUE}) :
                    log' = log \o Issued(step.type,
                                         Dispatch(step.type, sval, context, onscreen))
               /\ idx' = [idx EXCEPT ![w] = @ + 1]
               /\ trace' = [trace EXCEPT ![w] = Append(@, Visit(w, idx[w]))]
               /\ m_name' = m_name
    /\ UNCHANGED <<context, is_running, current_job_steps, btn_emergency_stop,
                   phase, i, loop_stack, stopped, restVars>>

\* a component runner in which a failing step ends the run
MacroStepAborting(w) ==
    /\ phase[w] = "macro"
    /\ idx[w] <= Len(macros[m_name[w]])
    /\ is_running
    /\ LET step == macros[m_name[w]][idx[w]]
           sval == Substitute(step.value, context)
       IN \E onscreen \in (IF step.type = "click" THEN BOOLEAN ELSE {TRUE}) :
            LET events == Issued(step.type, Dispatch(step.type, sval, context, onscreen))
            IN /\ log' = log \o events
               /\ is_running' = (events \notin {<<Status("error")>>, <<Status("not found")>>})
    /\ idx' = [idx EXCEPT ![w] = @ + 1]
    /\ trace' = [trace EXCEPT ![w] = Append(@, Visit(w, idx[w]))]
    /\ UNCHANGED <<context, current_job_steps, btn_emergency_stop,
                   phase, i, loop_stack, m_name, stopped, restVars>>

\* one iteration of the for loop of run_macro_steps
MacroStep(w) ==
    /\ phase[w] = "macro"
    /\ idx[w] <= Len(macros[m_name[w]])
    /\ is_running
    /\ LET step == macros[m_name[w]][idx[w]]
           sval == Substitute(step.value, context)
       IN \E onscreen \in (IF step.type = "click" THEN BOOLEAN ELSE {TRUE}) :
            log' = log \o Issued(step.type, Dispatch(step.type, sval, context, onscreen))
    /\ idx' = [idx EXCEPT ![w] = @ + 1]
    /\ trace' = [trace EXCEPT ![w] = Append(@, Visit(w, idx[w]))]
    /\ UNCHANGED <<context, is_running, current_job_steps, btn_emergency_stop,
                   phase, i, loop_stack, m_name, stopped, restVars>>

\* run_macro_steps returns (the list is exhausted, or the flag is seen
\* cleared) and run_steps goes on to the next step
MacroReturn(w) ==
    /\ phase[w] = "macro"
    /\ ~(idx[w] <= Len(macros[m_name[w]]) /\ is_running)
    /\ phase' = [phase EXCEPT ![w] = "loop"]
    /\ i' = [i EXCEPT ![w] = @ + 1]
    /\ UNCHANGED <<context, is_running, current_job_steps, btn_emergency_stop,
                   loop_stack, m_name, idx, trace, log, stopped, restVars>>

(* ------------------------------ packaging ----------------------------- *)

\* os.path.basename and os.path.join on component sequences
Basename(path) == IF path = <<>> THEN "" ELSE path[Len(path)]

LocalImage(file) == <<"images", file>>

\* a document written by json.dump: whole, or cut short by a failed write
Document(store) == [ok |-> TRUE, doc |-> store]

BrokenDocument == [ok |-> FALSE, doc |-> <<>>]

\* metadata.json as export writes it; given says whether the caller passed metadata
NoMetadataIn == [given |-> FALSE, author |-> "", description |-> "", price |-> 0]

ExportMeta(kind, name, meta_in, now) ==
    [type |-> kind, has_name |-> TRUE, name |-> name, version |-> "1.0",
     export_date |-> now,
     author |-> IF meta_in.given THEN meta_in.author ELSE "",
     description |-> IF meta_in.given THEN meta_in.description ELSE "",
     price |-> IF meta_in.given THEN meta_in.price ELSE 0]

\* the value of metadata when the archive holds no metadata.json: {}
EmptyMeta ==
    [type |-> "", has_name |-> FALSE, name |-> <<>>, version |-> "",
     export_date |-> 0, author |-> "", description |-> "", price |-> 0]

\* an archive file: its members, and whether it can be opened as an archive
Archive(has_meta, meta, has_data, data, imgs) ==
    [valid |-> TRUE, has_meta |-> has_meta, metadata |-> meta,
     has_data |-> has_data, data |-> data, imgs |-> imgs]

CorruptArchive ==
    [valid |-> FALSE, has_meta |-> FALSE, metadata |-> EmptyMeta,
     has_data |-> FALSE, data |-> <<>>, imgs |-> <<>>]

\* f"temp_export_{int(time.time())}" and f"temp_import_{int(time.time())}"
TempDir(kind, now) == <<kind, now>>

\* a removal that leaves the directory in place
KeepTree(dirs, d) == dirs \cup {d}

\* shutil.rmtree(temp_dir, ignore_errors=True)
RmTree(dirs, d) == dirs \ {d}

\* export_macro: the image files its click steps refer to that exist
ImageFilesOf(data, imgs) ==
    {data[k].value : k \in {n \in 1..Len(data) :
        /\ data[n].type = "click"
        /\ data[n].value /= <<>>
        /\ data[n].value \in DOMAIN imgs}}

\* the images directories shutil.copy2 can build from a set of files: each
\* file lands under its basename, a later copy replacing an earlier one, and
\* the set is walked in no fixed order
CopiedByBasename(files, imgs) ==
    LET bases == {Basename(f) : f \in files}
        picks == {c \in [bases -> files] : \A b \in bases : Basename(c[b]) = b}
    IN {[b \in bases |-> imgs[c[b]]] : c \in picks}

\* the archives a failed zipf.write can leave: the files of the scratch
\* directory are written top directory first, and the write stops part way
PartialArchives(full) ==
    {a \in {Archive(hm, full.metadata, hd, full.data, [b \in bs |-> full.imgs[b]]) :
                hm \in BOOLEAN, hd \in BOOLEAN, bs \in SUBSET (DOMAIN full.imgs)} :
        /\ a /= full
        /\ (DOMAIN a.imgs /= {} => a.has_meta /\ a.has_data)}

ExportFailures == {"makedirs", "data.json", "metadata.json", "copy", "open", "write"}

\* the record kept of a packaging call: its arguments, the step that raised
\* if the environment made one raise, and what it returned
Outcome(op, ret, name, data, has_meta, meta, zip) ==
    [op |-> op, ret |-> ret, name |-> name, data |-> data,
     has_meta |-> has_meta, metadata |-> meta, zip |-> zip, new_name |-> <<>>,
     fail |-> "none"]

NoResult == Outcome("none", "none", <<>>, <<>>, FALSE, EmptyMeta, <<>>)

\* export_macro and export_job; export_job copies no image.  fail is the step
\* that raises, "none" when none does.
Export(kind, store, name, steps, output_path, meta_in, fail) ==
    LET data == IF steps /= <<>> THEN steps
                ELSE IF name \in DOMAIN store THEN store[name] ELSE <<>>
        meta == ExportMeta(kind, name, meta_in, clock)
        temp_dir == TempDir("temp_export", clock)
        files == IF kind = "macro" THEN ImageFilesOf(data, images) ELSE {}
        op == IF kind = "macro" THEN "export_macro" ELSE "export_job"
    IN /\ calls' = calls + 1
       /\ UNCHANGED <<macros, jobs, images, saved_macros, saved_jobs, clock>>
       /\ IF (name \notin DOMAIN store /\ steps = <<>>) \/ data = <<>>
          THEN /\ fail = "none"
               /\ result' = Outcome(op, "false", name, data, FALSE, EmptyMeta, output_path)
               /\ UNCHANGED <<archives, scratch>>
          ELSE /\ scratch' = RmTree(scratch \cup {temp_dir}, temp_dir)
               /\ \E copied \in CopiedByBasename(files, images) :
                    LET full == Archive(TRUE, meta, TRUE, data, copied)
                    IN CASE fail = "none" ->
                              /\ archives' = (output_path :> full) @@ archives
                              /\ result' = Outcome(op, "true", name, data, TRUE, meta, output_path)
                         [] fail = "write" ->
                              /\ \E part \in PartialArchives(full) :
                                    archives' = (output_path :> part) @@ archives
                              /\ result' = [Outcome(op, "raised", name, data, TRUE, meta,
                                                   output_path) EXCEPT !.fail = fail]
                         [] fail = "copy" ->
                              /\ files /= {}
                              /\ archives' = archives
                              /\ result' = [Outcome(op, "raised", name, data, TRUE, meta,
                                                   output_path) EXCEPT !.fail = fail]
                         [] OTHER ->
                              /\ archives' = archives
                              /\ result' = [Outcome(op, "raised", name, data, TRUE, meta,
                                                   output_path) EXCEPT !.fail = fail]

\* the while loop of the name resolution: the first counter from 1 up whose
\* suffixed name is not in the store
RECURSIVE Probe(_, _, _)
Probe(final_name, store, counter) ==
    IF (final_name \o <<"_">> \o Str(counter)) \in DOMAIN store
    THEN Probe(final_name, store, counter + 1)
    ELSE counter

\* a name resolution that takes the requested name whether or not it is free
RequestedName(new_name, metadata, default, store) ==
    IF new_name /= <<>> THEN new_name
    ELSE IF metadata.has_name THEN metadata.name
    ELSE default

\* a name resolution that knows no default name
MetadataName(new_name, metadata, default, store) ==
    IF new_name /= <<>> THEN new_name ELSE metadata.name

\* import: the name the item is stored under
FinalName(new_name, metadata, default, store) ==
    LET final_name == IF new_name /= <<>> THEN new_name
                      ELSE IF metadata.has_name THEN metadata.name
                      ELSE default
    IN IF final_name \in DOMAIN store
       THEN final_name \o <<"_">> \o Str(Probe(final_name, store, 1))
       ELSE final_name

\* import_macro: the steps with every click step whose basename is that of
\* an archived image pointed at the local copy
Rewritten(data, files) ==
    [k \in 1..Len(data) |->
        IF data[k].type = "click" /\ Basename(data[k].value) \in files
        THEN [data[k] EXCEPT !.value = LocalImage(Basename(data[k].value))]
        ELSE data[k]]

\* the local image store after the files of an archive are copied into it
WithImages(imgs, copied) ==
    [p \in DOMAIN imgs \cup {LocalImage(b) : b \in DOMAIN copied} |->
        IF Basename(p) \in DOMAIN copied /\ p = LocalImage(Basename(p))
        THEN copied[Basename(p)]
        ELSE imgs[p]]

ImportFailures == {"parse", "copy", "save_macros", "save_jobs"}

\* import_macro and import_job; import_job restores no image
Import(kind, zip_path, new_name, fail) ==
    LET temp_dir == TempDir("temp_import", clock)
        op == IF kind = "macro" THEN "import_macro" ELSE "import_job"
        asked(r) == [r EXCEPT !.new_name = new_name, !.fail = fail]
        raised == asked(Outcome(op, "raised", <<>>, <<>>, FALSE, EmptyMeta, zip_path))
    IN /\ calls' = calls + 1
       /\ scratch' = RmTree(scratch \cup {temp_dir}, temp_dir)
       /\ UNCHANGED <<archives, clock>>
       /\ IF zip_path \notin DOMAIN archives \/ ~archives[zip_path].valid
          THEN /\ fail = "none"
               /\ result' = raised
               /\ UNCHANGED <<macros, jobs, images, saved_macros, saved_jobs>>
          ELSE LET a == archives[zip_path]
                   metadata == IF a.has_meta THEN a.metadata ELSE EmptyMeta
                   files == IF kind = "macro" THEN DOMAIN a.imgs ELSE {}
                   data == Rewritten(a.data, files)
                   store == IF kind = "macro" THEN macros ELSE jobs
                   final_name == FinalName(new_name, metadata,
                                           IF kind = "macro" THEN <<"imported_macro">>
                                           ELSE <<"imported_job">>, store)
                   added == (final_name :> data) @@ store
                   new_macros == IF kind = "macro" THEN added ELSE macros
                   new_jobs == IF kind = "job" THEN added ELSE jobs
               IN IF ~a.has_data
                  THEN /\ fail = "none"
                       /\ result' = asked(Outcome(op, "none", <<>>, <<>>, a.has_meta,
                                                  metadata, zip_path))
                       /\ UNCHANGED <<macros, jobs, images, saved_macros, saved_jobs>>
                  ELSE CASE fail = "parse" ->
                              /\ result' = raised
                              /\ UNCHANGED <<macros, jobs, images, saved_macros, saved_jobs>>
                         [] fail = "copy" ->
                              /\ files /= {}
                              /\ \E done \in (SUBSET files) \ {files} :
                                    images' = WithImages(images, [b \in done |-> a.imgs[b]])
                              /\ result' = raised
                              /\ UNCHANGED <<macros, jobs, saved_macros, saved_jobs>>
                         [] fail = "save_macros" ->
                              /\ images' = WithImages(images, [b \in files |-> a.imgs[b]])
                              /\ macros' = new_macros
                              /\ jobs' = new_jobs
                              /\ saved_macros' = BrokenDocument
                              /\ saved_jobs' = saved_jobs
                              /\ result' = raised
                         [] fail = "save_jobs" ->
                              /\ images' = WithImages(images, [b \in files |-> a.imgs[b]])
                              /\ macros' = new_macros
                              /\ jobs' = new_jobs
                              /\ saved_macros' = Document(new_macros)
                              /\ saved_jobs' = BrokenDocument
                              /\ result' = raised
                         [] OTHER ->
                              /\ images' = WithImages(images, [b \in files |-> a.imgs[b]])
                              /\ macros' = new_macros
                              /\ jobs' = new_jobs
                              /\ saved_macros' = Document(new_macros)
                              /\ saved_jobs' = Document(new_jobs)
                              /\ result' = asked(Outcome(op, "ok", final_name, data,
                                                         a.has_meta, metadata, zip_path))

\* no API call has been made
NoCall == [op |-> "none", failed |-> FALSE, ret |-> "none"]

\* MarketplaceAPI.__init__ with no user_info.json
MarketIdle ==
    [user_token |-> "", points |-> 0, saved |-> [token |-> "", points |-> 0],
     call |-> NoCall]

\* no purchase dialog is open
BuyIdle ==
    [pc |-> "idle", kind |-> "none", items |-> <<>>, item |-> 0, zip |-> <<>>,
     failed |-> FALSE, before |-> <<>>, message |-> "none"]

ShopIdle ==
    /\ market = MarketIdle
    /\ buy = BuyIdle

\* the component editor holds no step and its stop button is disabled
TestIdle ==
    /\ current_macro = <<>>
    /\ btn_emergency_stop_macro = "disabled"

\* no smart_wait call has been made
WaitIdle ==
    [pc |-> "idle", timeout |-> 0, check_interval |-> 1, start |-> 0,
     base |-> "none", caps |-> <<>>, ret |-> "none", end |-> 0, stop |-> -1]

\* the objects are not followed: no handler of the editors is called
NoSharing == [steps |-> <<>>, lists |-> <<>>, macro |-> <<>>, job |-> <<>>,
              cur_macro |-> 0, cur_job |-> 0]

\* the packaging state of a program that has made no packaging call
PkgIdle ==
    /\ images = Images0
    /\ archives = <<>>
    /\ scratch = {}
    /\ saved_macros = Document(macros)
    /\ saved_jobs = Document(jobs)
    /\ clock = 0
    /\ result = NoResult
    /\ calls = 0
    /\ pkg_ops = <<>>
    /\ tree = <<>>
    /\ shared = NoSharing

(* -------------------- App: starting and stopping a run ---------------- *)

\* run_current_job on the interface thread: the stop button is enabled and a
\* worker thread is started; nothing prevents a start while a run is active
run_current_job(w) ==
    /\ phase[w] = "idle"
    /\ \A v \in 1..(w - 1) : phase[v] /= "idle"
    /\ current_job_steps /= <<>>
    /\ btn_emergency_stop' = "normal"
    /\ phase' = [phase EXCEPT ![w] = "spawned"]
    /\ UNCHANGED <<context, is_running, current_job_steps, i, loop_stack,
                   m_name, idx, trace, log, stopped, restVars>>

\* the first statement of the worker's _run
WorkerEntry(w) ==
    /\ phase[w] = "spawned"
    /\ is_running' = TRUE
    /\ phase' = [phase EXCEPT ![w] = "entered"]
    /\ UNCHANGED <<context, current_job_steps, btn_emergency_stop, i, loop_stack,
                   m_name, idx, trace, log, stopped, restVars>>

\* run_steps up to its while loop: balance warning, flag set, context reset
RunStepsBegin(w) ==
    /\ phase[w] = "entered"
    /\ log' = IF OpenJoints(current_job_steps) /= 0
              THEN log \o <<Status("unbalanced"), Status("start")>>
              ELSE Append(log, Status("start"))
    /\ is_running' = TRUE
    /\ context' = <<>>
    /\ i' = [i EXCEPT ![w] = 1]
    /\ loop_stack' = [loop_stack EXCEPT ![w] = <<>>]
    /\ phase' = [phase EXCEPT ![w] = "loop"]
    /\ UNCHANGED <<current_job_steps, btn_emergency_stop, m_name, idx, trace,
                   stopped, restVars>>

\* the while condition of run_steps fails: the flag is cleared, and _run
\* disables the stop button
RunStepsEnd(w) ==
    /\ phase[w] = "loop"
    /\ ~(i[w] <= Len(current_job_steps) /\ is_running)
    /\ is_running' = FALSE
    /\ log' = Append(log, Status("done"))
    /\ btn_emergency_stop' = "disabled"
    /\ phase' = [phase EXCEPT ![w] = "done"]
    /\ UNCHANGED <<context, current_job_steps, i, loop_stack, m_name, idx,
                   trace, stopped, restVars>>

\* emergency_stop on the interface thread, reachable while one of the two
\* stop buttons is enabled
emergency_stop ==
    /\ btn_emergency_stop = "normal" \/ btn_emergency_stop_macro = "normal"
    /\ is_running' = FALSE
    /\ btn_emergency_stop' = "disabled"
    /\ btn_emergency_stop_macro' = "disabled"
    /\ stopped' = [w \in Runs |->
                     IF phase[w] \in {"loop", "macro", "test"} /\ stopped[w] = -1
                     THEN Len(trace[w])
                     ELSE stopped[w]]
    /\ wait' = IF wait.pc \in {"test", "sleep", "grab"} /\ wait.stop = -1
               THEN [wait EXCEPT !.stop = Len(wait.caps)]
               ELSE wait
    /\ UNCHANGED <<context, current_job_steps, phase, i, loop_stack, m_name,
                   idx, trace, log, macros, jobs, pkgVars, current_macro,
                   shopVars, raising, pkg_ops, tree, shared>>

\* test_current_macro on the interface thread: the editor's stop button is
\* enabled and a worker thread is started
test_current_macro(w) ==
    /\ phase[w] = "idle"
    /\ current_macro /= <<>>
    /\ btn_emergency_stop_macro' = "normal"
    /\ phase' = [phase EXCEPT ![w] = "test spawned"]
    /\ UNCHANGED <<context, is_running, current_job_steps, btn_emergency_stop,
                   i, loop_stack, m_name, idx, trace, log, stopped,
                   macros, jobs, pkgVars, wait, current_macro, shopVars, raising,
                   pkg_ops, tree, shared>>

\* the test worker's _run up to the call of run_macro_steps
TestEntry(w) ==
    /\ phase[w] = "test spawned"
    /\ is_running' = TRUE
    /\ idx' = [idx EXCEPT ![w] = 1]
    /\ log' = Append(log, Status("test"))
    /\ phase' = [phase EXCEPT ![w] = "test"]
    /\ UNCHANGED <<context, current_job_steps, btn_emergency_stop, i, loop_stack,
                   m_name, trace, stopped, restVars>>

\* one iteration of run_macro_steps over the steps of the editor
TestStep(w) ==
    /\ phase[w] = "test"
    /\ idx[w] <= Len(current_macro)
    /\ is_running
    /\ LET step == current_macro[idx[w]]
           sval == Substitute(step.value, context)
       IN \E onscreen \in (IF step.type = "click" THEN BOOLEAN ELSE {TRUE}) :
            log' = log \o Issued(step.type, Dispatch(step.type, sval, context, onscreen))
    /\ idx' = [idx EXCEPT ![w] = @ + 1]
    /\ trace' = [trace EXCEPT ![w] = Append(@, Visit(w, idx[w]))]
    /\ UNCHANGED <<context, is_running, current_job_steps, btn_emergency_stop,
                   phase, i, loop_stack, m_name, stopped, restVars>>

\* run_macro_steps returns to the test worker: the flag is cleared and the
\* editor's stop button disabled
TestEnd(w) ==
    /\ phase[w] = "test"
    /\ ~(idx[w] <= Len(current_macro) /\ is_running)
    /\ is_running' = FALSE
    /\ log' = Append(log, Status("test done"))
    /\ btn_emergency_stop_macro' = "disabled"
    /\ phase' = [phase EXCEPT ![w] = "done"]
    /\ UNCHANGED <<context, current_job_steps, btn_emergency_stop, i, loop_stack,
                   m_name, idx, trace, stopped, macros, jobs, pkgVars, wait,
                   current_macro, shopVars, raising, pkg_ops, tree, shared>>

(* --------------------------- specifications --------------------------- *)

vars == <<macros, jobs, context, is_running, current_job_steps,
          btn_emergency_stop, phase, i, loop_stack, m_name, idx, trace, log,
          stopped, pkgVars, wait, testVars, shopVars, raising, pkg_ops, tree, shared>>

\* the engine and the App after construction, with an assembly line loaded
InitRun(programs, stores) ==
    /\ macros \in stores
    /\ jobs = <<>>
    /\ PkgIdle
    /\ wait = WaitIdle
    /\ TestIdle
    /\ ShopIdle
    /\ context = <<>>
    /\ is_running = FALSE
    /\ current_job_steps \in programs
    /\ btn_emergency_stop = "disabled"
    /\ phase = [w \in Runs |-> "idle"]
    /\ i = [w \in Runs |-> 1]
    /\ loop_stack = [w \in Runs |-> <<>>]
    /\ m_name = [w \in Runs |-> <<>>]
    /\ idx = [w \in Runs |-> 1]
    /\ trace = [w \in Runs |-> <<>>]
    /\ log = <<>>
    /\ stopped = [w \in Runs |-> -1]

Worker(w) ==
    \/ WorkerEntry(w)
    \/ RunStepsBegin(w)
    \/ JointStart(w)
    \/ JointList(w)
    \/ JointEnd(w)
    \/ CallMacro(w)
    \/ OtherStep(w)
    \/ MacroStep(w)
    \/ MacroReturn(w)
    \/ RunStepsEnd(w)

\* one run of an assembly line, which may be stopped at any step boundary
Init == InitRun(Programs, {Macros0}) /\ raising = {}

Next ==
    \/ run_current_job(1)
    \/ Worker(1)
    \/ emergency_stop

Spec == Init /\ [][Next]_vars

\* run requests made while a run is active: every request starts a worker
RacePrograms ==
    { <<CM(<<"a">>), AT("key", <<"k">>)>>,
      <<JS(Str(MaxCount)), CM(<<"a">>), JE>>,
      <<JL(<<"A", "\n", "B">>), CM(<<"b">>), JE>> }

InitRace == InitRun(RacePrograms, {Macros0}) /\ raising = {}

NextRace ==
    \/ \E w \in Runs : run_current_job(w)
    \/ \E w \in Runs : Worker(w)
    \/ emergency_stop

SpecRace == InitRace /\ [][NextRace]_vars

(* ------------------------- loops: C1, C2, C3 -------------------------- *)

IsLoopStart(step) == step.type \in {"joint_start", "joint_list"}

\* the number of items a loop-start step yields
ItemsOf(step) ==
    IF step.type = "joint_start" THEN Len(LoopData(step.value).data)
    ELSE Len(ListLines(step.value))

\* the loop-end that closes the loop opened before position k, 0 if none
RECURSIVE MatchFrom(_, _, _)
MatchFrom(steps, k, depth) ==
    IF k > Len(steps) THEN 0
    ELSE IF IsLoopStart(steps[k]) THEN MatchFrom(steps, k + 1, depth + 1)
    ELSE IF steps[k].type = "joint_end"
         THEN IF depth = 0 THEN k ELSE MatchFrom(steps, k + 1, depth - 1)
    ELSE MatchFrom(steps, k + 1, depth)

MatchEnd(steps, s) == MatchFrom(steps, s + 1, 0)

\* every loop-end closes a loop-start and every loop-start is closed
WellNested(steps) ==
    /\ OpenJoints(steps) = 0
    /\ \A k \in 1..Len(steps) : OpenJoints(SubSeq(steps, 1, k)) >= 0

\* the steps between the loop-start at s and its loop-end that lie in no
\* loop nested in between (a nested loop-start itself is such a step)
DirectBody(steps, s) ==
    {k \in (s + 1)..(MatchEnd(steps, s) - 1) :
        ~\E s2 \in (s + 1)..(k - 1) :
            IsLoopStart(steps[s2]) /\ MatchEnd(steps, s2) >= k}

\* how often worker w has executed the assembly step at position k
ExecCount(w, k) ==
    Cardinality({n \in 1..Len(trace[w]) : trace[w][n].pc = k /\ trace[w][n].sub = 0})

\* the run of worker w went through the whole step list
Completed(w) == phase[w] = "done" /\ i[w] > Len(current_job_steps)

\* C1: in a completed run of a well-nested assembly line, every step between
\* a loop-start that yields N >= 1 items and its loop-end has been executed
\* N times for each time the loop-start was executed.
C1_BodyRunsNTimes ==
    (Completed(1) /\ WellNested(current_job_steps)) =>
        \A s \in 1..Len(current_job_steps) :
            (IsLoopStart(current_job_steps[s]) /\ ItemsOf(current_job_steps[s]) >= 1) =>
                \A k \in DirectBody(current_job_steps, s) :
                    ExecCount(1, k) = ItemsOf(current_job_steps[s]) * ExecCount(1, s)

\* C2: the steps between a loop-start that yields no item and its loop-end
\* are never executed.
C2_EmptyLoopBodySkipped ==
    WellNested(current_job_steps) =>
        \A s \in 1..Len(current_job_steps) :
            (IsLoopStart(current_job_steps[s]) /\ ItemsOf(current_job_steps[s]) = 0) =>
                \A k \in (s + 1)..(MatchEnd(current_job_steps, s) - 1) :
                    ExecCount(1, k) = 0

\* outer list loop over A, B around a count loop over 1, 2 around one call
NestedAB12 ==
    <<JL(<<"A", "\n", " ", "\n", "B">>), JS(<<"2">>), CM(<<"b">>), JE, JE>>

Lookup(ctx, name) == IF name \in DOMAIN ctx THEN ctx[name] ELSE <<"<unbound>">>

\* the bindings of i and i2 seen at each execution of the assembly step at k
RECURSIVE BindingsAt(_, _)
BindingsAt(tr, k) ==
    IF tr = <<>> THEN <<>>
    ELSE (IF Head(tr).pc = k /\ Head(tr).sub = 0
          THEN << <<Lookup(Head(tr).ctx, <<"i">>), Lookup(Head(tr).ctx, <<"i", "2">>)>> >>
          ELSE <<>>) \o BindingsAt(Tail(tr), k)

\* C3: with outer items A, B and inner items 1, 2 the inner body sees
\* (i=A,i2=1), (i=A,i2=2), (i=B,i2=1), (i=B,i2=2), in this order.
C3_NestedBindingOrder ==
    (Completed(1) /\ current_job_steps = NestedAB12) =>
        BindingsAt(trace[1], 3) =
            << <<<<"A">>, <<"1">>>>, <<<<"A">>, <<"2">>>>,
               <<<<"B">>, <<"1">>>>, <<<<"B">>, <<"2">>>> >>

(* --------------------------- cancellation: C4 ------------------------- *)

\* C4: once a stop is requested after a run has executed a step, that run
\* executes no further step, of the assembly line or of a component.
C4_StopHaltsDispatch ==
    \A w \in Runs : stopped[w] >= 1 => Len(trace[w]) = stopped[w]

(* ----------------------- template substitution: C5 -------------------- *)

\* the pieces step values are written from: placeholders for i, for the
\* spreadsheet column x and for the unknown name m, text, braces alone and doubled
Pieces ==
    { <<"{", "i", "}">>, <<"{", "x", "}">>, <<"{", "m", "}">>, <<"a">>,
      <<"{">>, <<"}">>, <<"{", "{">>, <<"}", "}">> }

RECURSIVE Templates(_)
Templates(n) ==
    IF n = 0 THEN {<<>>}
    ELSE LET shorter == Templates(n - 1)
         IN shorter \cup {p \o t : p \in Pieces, t \in shorter}

\* a component of one step, enter-text or press-key, run under no binding
\* (a loop without data), under i, under x, and under both
FmtStores ==
    {(<<"t">> :> <<AT(atype, v)>>) :
        atype \in {"type", "key"}, v \in Templates(MaxPieces)}

FmtPrograms ==
    { <<JS(<<"a">>), CM(<<"t">>), JE>>,
      <<JS(<<"1">>), CM(<<"t">>), JE>>,
      <<JS(FullSheet), CM(<<"t">>), JE>>,
      <<JS(<<"1">>), JS(FullSheet), CM(<<"t">>), JE, JE>> }

InitFmt == InitRun(FmtPrograms, FmtStores) /\ raising = {}

NextFmt ==
    \/ run_current_job(1)
    \/ WorkerEntry(1)
    \/ RunStepsBegin(1)
    \/ JointStart(1)
    \/ JointEnd(1)
    \/ CallMacro(1)
    \/ MacroStep(1)
    \/ MacroReturn(1)
    \/ RunStepsEnd(1)

SpecFmt == InitFmt /\ [][NextFmt]_vars

\* a value made of text and of placeholders {name} only: no brace alone or doubled
RECURSIVE WellFormed(_)
WellFormed(v) ==
    IF v = <<>> THEN TRUE
    ELSE IF v[1] = "}" THEN FALSE
    ELSE IF v[1] = "{" THEN
        LET close == FirstPos(v, "}", 2)
        IN /\ close > 2
           /\ ~HasChar(SubSeq(v, 2, close - 1), "{")
           /\ WellFormed(SubSeq(v, close + 1, Len(v)))
    ELSE WellFormed(Tail(v))

\* the placeholder names of a well-formed value
RECURSIVE PlaceholderNames(_)
PlaceholderNames(v) ==
    IF v = <<>> THEN {}
    ELSE IF v[1] = "{"
         THEN LET close == FirstPos(v, "}", 2)
              IN {SubSeq(v, 2, close - 1)}
                 \cup PlaceholderNames(SubSeq(v, close + 1, Len(v)))
    ELSE PlaceholderNames(Tail(v))

\* a well-formed value with each placeholder replaced by its binding
RECURSIVE Filled(_, _)
Filled(v, ctx) ==
    IF v = <<>> THEN <<>>
    ELSE IF v[1] = "{"
         THEN LET close == FirstPos(v, "}", 2)
              IN ctx[SubSeq(v, 2, close - 1)] \o Filled(SubSeq(v, close + 1, Len(v)), ctx)
    ELSE <<v[1]>> \o Filled(Tail(v), ctx)

\* the text the claim expects to be dispatched for a well-formed value
ClaimedText(v, ctx) ==
    IF PlaceholderNames(v) \subseteq DOMAIN ctx THEN Filled(v, ctx) ELSE v

\* the texts handed to the clipboard or the keyboard by the events evs
RECURSIVE TextsOf(_)
TextsOf(evs) ==
    IF evs = <<>> THEN <<>>
    ELSE (IF Head(evs)[1] \in {"copy", "press"} THEN <<Head(evs)[2]>> ELSE <<>>)
         \o TextsOf(Tail(evs))

\* worker 1 dispatches a component step in this transition
Dispatches == Len(trace'[1]) > Len(trace[1]) /\ trace'[1][Len(trace'[1])].sub > 0

DispatchedStep == macros[m_name[1]][idx[1]]

\* C5: a dispatched step whose value is a well-formed template carries the
\* value with every placeholder replaced when all its names are bound, and
\* the value unchanged when one is missing, whatever the step kind.
C5_TemplateSubstitution ==
    [][ (Dispatches /\ WellFormed(DispatchedStep.value)
           /\ HasChar(DispatchedStep.value, "{"))
        => TextsOf(SubSeq(log', Len(log) + 1, Len(log')))
             = <<ClaimedText(DispatchedStep.value, context)>> ]_vars


(* --------------------------- packaging calls -------------------------- *)

CK(path) == AT("click", path)

\* components whose click steps refer to local images, two of them to
\* files with the same basename in different directories
PkgMacros0 ==
    (<<"m">> :> <<CK(<<"images", "b.png">>), AT("key", <<"k">>)>>)
    @@ (<<"n">> :> <<CK(<<"images", "b.png">>), CK(<<"d", "b.png">>)>>)

PkgJobs0 == (<<"j">> :> <<CM(<<"m">>)>>)

\* the steps in the editor when an export is asked for: none, or unsaved ones
CurrentSteps == {<<>>, <<CK(<<"images", "c.png">>)>>}

MetadataIn == {NoMetadataIn, [given |-> TRUE, author |-> "", description |-> "", price |-> 0]}

OutputPath == <<"out.zip">>

NamedMeta(name) ==
    [type |-> "macro", has_name |-> TRUE, name |-> name, version |-> "1.0",
     export_date |-> 0, author |-> "", description |-> "", price |-> 0]

\* the component stores the program can start with: the components above,
\* alone or with items named f and f_2 imported in earlier sessions
PkgStores ==
    {PkgMacros0,
     (<<"f">> :> <<AT("key", <<"0">>)>>) @@ PkgMacros0,
     (<<"f">> :> <<AT("key", <<"0">>)>>) @@ (<<"f", "_", "2">> :> <<AT("key", <<"2">>)>>)
        @@ PkgMacros0}

\* archive files received from elsewhere: two distinct ones named f, one
\* of them with an image called like a local one, one without metadata.json,
\* one without data.json, and a file that is no archive
Archives0 ==
    (<<"f1.zip">> :> Archive(TRUE, NamedMeta(<<"f">>), TRUE, <<AT("key", <<"1">>)>>, <<>>))
    @@ (<<"f2.zip">> :> Archive(TRUE, NamedMeta(<<"f">>), TRUE, <<CK(<<"x", "b.png">>)>>,
                                ("b.png" :> "B9")))
    @@ (<<"nometa.zip">> :> Archive(FALSE, EmptyMeta, TRUE, <<AT("key", <<"4">>)>>, <<>>))
    @@ (<<"nodata.zip">> :> Archive(TRUE, NamedMeta(<<"f">>), FALSE, <<>>, <<>>))
    @@ (<<"bad.zip">> :> CorruptArchive)

\* the files an import is asked to read; the output path may not exist yet
ZipPaths == DOMAIN Archives0 \cup {OutputPath}

NewNames == {<<>>, <<"m">>}

export_macro ==
    /\ calls < MaxCalls
    /\ \E name \in {<<"m">>, <<"n">>, <<"q">>}, steps \in CurrentSteps,
          meta_in \in MetadataIn, fail \in ExportFailures \cup {"none"} :
            Export("macro", macros, name, steps, OutputPath, meta_in, fail)
    /\ UNCHANGED <<runVars, wait, testVars, shopVars>>

export_job ==
    /\ calls < MaxCalls
    /\ \E name \in {<<"j">>, <<"q">>}, meta_in \in MetadataIn,
          fail \in ExportFailures \cup {"none"} :
            Export("job", jobs, name, <<>>, OutputPath, meta_in, fail)
    /\ UNCHANGED <<runVars, wait, testVars, shopVars>>

import_macro ==
    /\ calls < MaxCalls
    /\ \E zip_path \in ZipPaths, new_name \in NewNames,
          fail \in ImportFailures \cup {"none"} :
            Import("macro", zip_path, new_name, fail)
    /\ UNCHANGED <<runVars, wait, testVars, shopVars>>

import_job ==
    /\ calls < MaxCalls
    /\ \E zip_path \in ZipPaths, new_name \in NewNames,
          fail \in ImportFailures \cup {"none"} :
            Import("job", zip_path, new_name, fail)
    /\ UNCHANGED <<runVars, wait, testVars, shopVars>>

InitPkg ==
    /\ macros \in PkgStores
    /\ jobs = PkgJobs0
    /\ images = Images0
    /\ archives = Archives0
    /\ scratch = {}
    /\ saved_macros = Document(macros)
    /\ saved_jobs = Document(jobs)
    /\ clock = 0
    /\ result = NoResult
    /\ calls = 0
    /\ wait = WaitIdle
    /\ TestIdle
    /\ ShopIdle
    /\ context = <<>>
    /\ is_running = FALSE
    /\ current_job_steps = <<>>
    /\ btn_emergency_stop = "disabled"
    /\ phase = [w \in Runs |-> "idle"]
    /\ i = [w \in Runs |-> 1]
    /\ loop_stack = [w \in Runs |-> <<>>]
    /\ m_name = [w \in Runs |-> <<>>]
    /\ idx = [w \in Runs |-> 1]
    /\ trace = [w \in Runs |-> <<>>]
    /\ log = <<>>
    /\ stopped = [w \in Runs |-> -1]
    /\ raising = {}
    /\ pkg_ops = <<>>
    /\ tree = <<>>
    /\ shared = NoSharing

NextPkg ==
    \/ export_macro
    \/ export_job
    \/ import_macro
    \/ import_job

\* exports and imports of components and assembly lines, one after another
SpecPkg == InitPkg /\ [][NextPkg]_vars


(* ---------------------- claims about packaging ------------------------ *)

\* this transition is a call of one of the handlers ops
Called(ops) == calls' = calls + 1 /\ result'.op \in ops

Suffixed(name, k) == name \o <<"_">> \o Str(k)

\* C6: a successful import_macro or import_job stores the item under the
\* override if one is given, else under the archive's metadata name, when
\* that name is free, and otherwise under name_k for the smallest k >= 1
\* whose name_k is free; no entry that was in the store is replaced.
C6_ImportNeverOverwrites ==
    [][ (/\ Called({"import_macro", "import_job"})
         /\ result'.ret = "ok"
         /\ (result'.new_name /= <<>> \/ result'.metadata.has_name))
        => LET old == IF result'.op = "import_macro" THEN macros ELSE jobs
               new == IF result'.op = "import_macro" THEN macros' ELSE jobs'
               name == IF result'.new_name /= <<>> THEN result'.new_name
                       ELSE result'.metadata.name
               final == result'.name
           IN /\ name \notin DOMAIN old => final = name
              /\ name \in DOMAIN old =>
                    \E k \in 1..(Cardinality(DOMAIN old) + 1) :
                        /\ final = Suffixed(name, k)
                        /\ \A j \in 1..(k - 1) : Suffixed(name, j) \in DOMAIN old
              /\ final \notin DOMAIN old
              /\ DOMAIN new = DOMAIN old \cup {final}
              /\ new[final] = result'.data
              /\ \A n \in DOMAIN old : new[n] = old[n] ]_vars

\* two archives named f were imported into a store that held f: the second
\* one is stored as f_2 beside f and f_1
C6_Witness ==
    /\ result.op = "import_macro"
    /\ result.ret = "ok"
    /\ result.new_name = <<>>
    /\ result.metadata.has_name /\ result.metadata.name = <<"f">>
    /\ result.name = <<"f", "_", "2">>
    /\ {<<"f">>, <<"f", "_", "1">>, <<"f", "_", "2">>} \subseteq DOMAIN macros
    /\ calls = 2

SameButDate(m1, m2) == [m1 EXCEPT !.export_date = 0] = [m2 EXCEPT !.export_date = 0]

\* C7: when import_macro succeeds on the archive the preceding export_macro
\* call produced, it returns the exported step list and the exported
\* metadata but for the timestamp, and every image a click step of the
\* exported list refers to has the same content under the returned step.
C7_ExportImportRoundTrip ==
    [][ (/\ result.op = "export_macro" /\ result.ret = "true"
         /\ Called({"import_macro"})
         /\ result'.ret = "ok"
         /\ result'.zip = result.zip)
        => /\ result'.data = result.data
           /\ result'.has_meta /\ SameButDate(result'.metadata, result.metadata)
           /\ \A k \in 1..Len(result.data) :
                (result.data[k].type = "click" /\ result.data[k].value \in DOMAIN images)
                => /\ k <= Len(result'.data)
                   /\ result'.data[k].value \in DOMAIN images'
                   /\ images'[result'.data[k].value] = images[result.data[k].value] ]_vars

\* C10: an export_macro or export_job call that fails leaves no scratch
\* directory and no file at the output path that was not there before, and
\* a call that succeeds leaves no scratch directory either.
C10_ExportAtomic ==
    [][ Called({"export_macro", "export_job"})
        => /\ TempDir("temp_export", clock) \notin scratch'
           /\ result'.ret = "raised" =>
                (result'.zip \in DOMAIN archives' =>
                    /\ result'.zip \in DOMAIN archives
                    /\ archives'[result'.zip] = archives[result'.zip]) ]_vars


(* ------------------------------ smart_wait ---------------------------- *)

\* what ImageGrab.grab() can return: one of two screen contents
Frames == {"s0", "s1"}

\* a comparison that never sees a change
NeverDiffers(base, cur) == FALSE

\* ImageChops.difference(base, cur).getbbox() is not None
Differs(base, cur) == base /= cur

\* smart_wait is called: start = time.time() and the first screenshot, or
\* the screenshot raises and the except clause ends the call
SmartWaitBegin ==
    /\ wait.pc = "call"
    /\ \/ \E f \in Frames :
            wait' = [wait EXCEPT !.pc = "test", !.start = clock, !.base = f]
       \/ wait' = [wait EXCEPT !.pc = "done", !.start = clock, !.ret = "error",
                               !.end = clock]
    /\ UNCHANGED <<macros, jobs, pkgVars, runVars, testVars, shopVars>>

\* while time.time() - start < timeout and self.is_running
SmartWaitTest ==
    /\ wait.pc = "test"
    /\ IF clock - wait.start < wait.timeout /\ is_running
       THEN wait' = [wait EXCEPT !.pc = "sleep"]
       ELSE wait' = [wait EXCEPT !.pc = "done", !.ret = "timeout", !.end = clock]
    /\ UNCHANGED <<macros, jobs, pkgVars, runVars, testVars, shopVars>>

\* time.sleep(check_interval)
SmartWaitSleep ==
    /\ wait.pc = "sleep"
    /\ clock' = clock + wait.check_interval
    /\ wait' = [wait EXCEPT !.pc = "grab"]
    /\ UNCHANGED <<macros, jobs, images, archives, scratch, saved_macros,
                   saved_jobs, result, calls, runVars, testVars, shopVars>>

\* the next screenshot and its comparison with the first one
SmartWaitGrab ==
    /\ wait.pc = "grab"
    /\ \/ \E cur \in Frames :
            LET caps == Append(wait.caps, [at |-> clock, frame |-> cur])
            IN IF Differs(wait.base, cur)
               THEN wait' = [wait EXCEPT !.pc = "done", !.caps = caps,
                                         !.ret = "changed", !.end = clock]
               ELSE wait' = [wait EXCEPT !.pc = "test", !.caps = caps]
       \/ wait' = [wait EXCEPT !.pc = "done", !.ret = "error", !.end = clock]
    /\ UNCHANGED <<macros, jobs, pkgVars, runVars, testVars, shopVars>>

\* a run is at a smart_wait step: the call is about to be made with some
\* timeout and polling interval, and the stop button is enabled
InitWait ==
    /\ macros = Macros0
    /\ jobs = <<>>
    /\ PkgIdle
    /\ wait \in {[WaitIdle EXCEPT !.pc = "call", !.timeout = t, !.check_interval = c] :
                    t \in 0..MaxTimeout, c \in 1..MaxInterval}
    /\ TestIdle
    /\ ShopIdle
    /\ context = <<>>
    /\ is_running = TRUE
    /\ current_job_steps = <<>>
    /\ btn_emergency_stop = "normal"
    /\ phase = [w \in Runs |-> "idle"]
    /\ i = [w \in Runs |-> 1]
    /\ loop_stack = [w \in Runs |-> <<>>]
    /\ m_name = [w \in Runs |-> <<>>]
    /\ idx = [w \in Runs |-> 1]
    /\ trace = [w \in Runs |-> <<>>]
    /\ log = <<>>
    /\ stopped = [w \in Runs |-> -1]
    /\ raising = {}

NextWait ==
    \/ SmartWaitBegin
    \/ SmartWaitTest
    \/ SmartWaitSleep
    \/ SmartWaitGrab
    \/ emergency_stop

\* one smart_wait call, during which the run may be stopped
SpecWait == InitWait /\ [][NextWait]_vars

(* ------------------------ claims about smart_wait --------------------- *)

\* C8: once a poll captures a frame that differs from the first screenshot,
\* after polls that all equalled it, smart_wait has returned: that poll is
\* the last capture, it was made at start + (K+1) * check_interval, the call
\* ended at that instant without an error, and that is before the timeout
\* whenever (K+1) * check_interval is smaller than the timeout.
C8_EarlyReturn ==
    \A n \in 1..Len(wait.caps) :
        wait.caps[n].frame /= wait.base
        => /\ n = Len(wait.caps)
           /\ wait.pc = "done"
           /\ wait.ret = "changed"
           /\ wait.caps[n].at = wait.start + n * wait.check_interval
           /\ wait.end = wait.caps[n].at
           /\ n * wait.check_interval < wait.timeout
                => wait.end - wait.start < wait.timeout

\* the screen changed at the second poll of a wait that had time left
C8_Witness ==
    /\ wait.pc = "done"
    /\ wait.ret = "changed"
    /\ Len(wait.caps) = 2
    /\ wait.caps[1].frame = wait.base
    /\ wait.caps[2].frame /= wait.base
    /\ wait.end - wait.start < wait.timeout
    /\ clock = wait.end

\* C9: while every captured frame equals the first screenshot and the run
\* is not stopped, smart_wait neither sleeps nor captures past
\* start + timeout, and when it returns it does so at start + timeout.
C9_ReturnsAtTimeout ==
    (/\ wait.pc \notin {"idle", "call"}
     /\ wait.ret /= "error"
     /\ is_running
     /\ \A n \in 1..Len(wait.caps) : wait.caps[n].frame = wait.base)
    => /\ clock <= wait.start + wait.timeout
       /\ \A n \in 1..Len(wait.caps) : wait.caps[n].at <= wait.start + wait.timeout
       /\ wait.pc = "done" => wait.end = wait.start + wait.timeout


(* ------------------- claims about failing imports --------------------- *)

ImportOps == {"import_macro", "import_job"}

\* the archive the import of this transition reads, when it can be opened
Opened ==
    /\ result'.zip \in DOMAIN archives
    /\ archives[result'.zip].valid

StoresKept ==
    /\ macros' = macros
    /\ jobs' = jobs
    /\ saved_macros' = saved_macros
    /\ saved_jobs' = saved_jobs

DefaultName(op) == IF op = "import_macro" THEN <<"imported_macro">> ELSE <<"imported_job">>

\* C11: an import of an archive without data.json adds no entry, leaves the
\* persisted documents as they were, removes its scratch directory and does
\* not report success; an import of an archive with data.json and without
\* metadata.json, when nothing else fails, succeeds with empty metadata and
\* stores the item under the override or, without one, under the default
\* name (suffixed when that name is taken).
C11_MissingMembers ==
    [][ (Called(ImportOps) /\ Opened)
        => LET a == archives[result'.zip]
               old == IF result'.op = "import_macro" THEN macros ELSE jobs
               new == IF result'.op = "import_macro" THEN macros' ELSE jobs'
               name == IF result'.new_name /= <<>> THEN result'.new_name
                       ELSE DefaultName(result'.op)
           IN /\ ~a.has_data
                 => /\ StoresKept
                    /\ images' = images
                    /\ TempDir("temp_import", clock) \notin scratch'
                    /\ result'.ret = "none"
              /\ (a.has_data /\ ~a.has_meta /\ result'.fail = "none")
                 => /\ result'.ret = "ok"
                    /\ ~result'.has_meta
                    /\ result'.metadata = EmptyMeta
                    /\ result'.data = a.data
                    /\ \/ name \notin DOMAIN old /\ result'.name = name
                       \/ /\ name \in DOMAIN old
                          /\ \E k \in 1..(Cardinality(DOMAIN old) + 1) :
                                result'.name = Suffixed(name, k)
                    /\ result'.name \in DOMAIN new
                    /\ new[result'.name] = a.data ]_vars

\* an archive without metadata.json was imported under the default name,
\* and after it an archive without data.json was refused
C11_Witness ==
    /\ calls = 2
    /\ result.op = "import_macro"
    /\ result.ret = "none"
    /\ result.zip = <<"nodata.zip">>
    /\ <<"imported_macro">> \in DOMAIN macros
    /\ saved_macros = Document(macros)
    /\ scratch = {}


\* C12: an import_macro or import_job call that does not succeed leaves
\* the in-memory stores, the persisted documents and the local images
\* exactly as they were, and leaves no scratch directory.
C12_ImportNeverPartial ==
    [][ (Called(ImportOps) /\ result'.ret /= "ok")
        => /\ StoresKept
           /\ images' = images
           /\ TempDir("temp_import", clock) \notin scratch' ]_vars


(* ----------------------- claims about run requests -------------------- *)

\* the workers that are inside _run: past its first statement and not yet
\* back from run_steps
ActiveRuns == {w \in Runs : phase[w] \in {"entered", "loop", "macro", "test"}}

\* C13: at most one run is active at any time; a run request made while a
\* run is in progress does not give a second worker that sets the flag,
\* resets the context or executes steps.
C13_OneActiveRun == Cardinality(ActiveRuns) <= 1


\* C30: when import_macro or import_job has returned or raised, whether it
\* stored the item, found no data.json or met an exception, the scratch
\* directory it made for the call is not on disk.
C30_ImportScratchRemoved ==
    [][ Called(ImportOps)
        => /\ <<"temp_import", clock>> \notin scratch'
           /\ scratch' = scratch \ {<<"temp_import", clock>>} ]_vars

\* an import stored its item, a later one raised while copying images, and
\* no scratch directory is left
C30_Witness ==
    /\ calls = 2
    /\ result.op \in ImportOps
    /\ result.ret = "raised"
    /\ result.fail = "copy"
    /\ <<"f">> \in DOMAIN macros
    /\ scratch = {}


(* ------------------ claims about the assembly interpreter ------------- *)

\* worker 1 executes an assembly step in this transition
StepsAssembly ==
    /\ Len(trace'[1]) = Len(trace[1]) + 1
    /\ trace'[1][Len(trace'[1])].sub = 0

CurrentStep == current_job_steps[i[1]]

\* C14: a call_macro step whose component is not in the store logs a
\* message, dispatches nothing, leaves the context, the loop stack and the
\* stores as they are, and the run goes on with the next step.
C14_MissingComponentSkipped ==
    [][ (/\ StepsAssembly
         /\ CurrentStep.type = "call_macro"
         /\ CurrentStep.value \notin DOMAIN macros)
        => /\ log' = Append(log, Status("no macro"))
           /\ context' = context
           /\ loop_stack' = loop_stack
           /\ macros' = macros /\ jobs' = jobs
           /\ saved_macros' = saved_macros /\ saved_jobs' = saved_jobs
           /\ is_running' = is_running
           /\ phase'[1] = "loop"
           /\ i'[1] = i[1] + 1 ]_vars

\* a run that met a call of a component that is not in the store went on
\* to the steps after it and ended by itself
C14_Witness ==
    /\ phase[1] = "done"
    /\ stopped[1] = -1
    /\ \E k \in 1..(Len(trace[1]) - 1) :
          /\ trace[1][k].sub = 0
          /\ current_job_steps[trace[1][k].pc].type = "call_macro"
          /\ current_job_steps[trace[1][k].pc].value \notin DOMAIN macros
          /\ trace[1][k + 1].pc = trace[1][k].pc + 1
    /\ trace[1][Len(trace[1])].pc = Len(current_job_steps)


\* the number of steps of the assembly line whose type is in types
CountSteps(types) ==
    Cardinality({k \in 1..Len(current_job_steps) : current_job_steps[k].type \in types})

Unbalanced ==
    CountSteps({"joint_start", "joint_list"}) /= CountSteps({"joint_end"})

\* C15: when the loop starts and loop ends of the step list differ in
\* number, run_steps emits a warning before anything else and still
\* executes the list from its first step.
C15_UnbalancedStillRuns ==
    (Unbalanced /\ phase[1] \in {"loop", "macro", "done"})
    => /\ log /= <<>> /\ log[1] = Status("unbalanced")
       /\ trace[1] /= <<>> => trace[1][1].pc = 1 /\ trace[1][1].sub = 0
       /\ (phase[1] = "done" /\ stopped[1] = -1) => trace[1] /= <<>>

\* an unbalanced step list was warned about and run to its last step
C15_Witness ==
    /\ Unbalanced
    /\ phase[1] = "done"
    /\ stopped[1] = -1
    /\ log[1] = Status("unbalanced")
    /\ trace[1][1].pc = 1
    /\ trace[1][Len(trace[1])].pc = Len(current_job_steps)


\* C16: at every step boundary each frame on the loop stack has
\* 0 <= idx < len(data); the joint_end that brings the top frame's idx to
\* len(data) pops that frame and goes on to the step after it, and a frame
\* that is pushed is a fresh one, with idx 0.
C16_CursorInvariant ==
    [][ /\ \A k \in 1..Len(loop_stack'[1]) :
              /\ 0 <= loop_stack'[1][k].idx
              /\ loop_stack'[1][k].idx < Len(loop_stack'[1][k].data)
        /\ (/\ StepsAssembly
            /\ CurrentStep.type = "joint_end"
            /\ loop_stack[1] /= <<>>
            /\ loop_stack[1][Len(loop_stack[1])].idx + 1
                 = Len(loop_stack[1][Len(loop_stack[1])].data))
           => /\ loop_stack'[1] = SubSeq(loop_stack[1], 1, Len(loop_stack[1]) - 1)
              /\ i'[1] = i[1] + 1
        /\ Len(loop_stack'[1]) > Len(loop_stack[1])
           => /\ SubSeq(loop_stack'[1], 1, Len(loop_stack[1])) = loop_stack[1]
              /\ loop_stack'[1][Len(loop_stack'[1])].idx = 0
              /\ loop_stack'[1][Len(loop_stack'[1])].start = i[1] ]_vars

\* a loop of two items ran its body twice, its frame was popped by the
\* second joint_end and the step after the loop was executed
C16_Witness ==
    /\ phase[1] = "done"
    /\ stopped[1] = -1
    /\ loop_stack[1] = <<>>
    /\ Len(current_job_steps) = 4
    /\ current_job_steps[1].type = "joint_start"
    /\ current_job_steps[3].type = "joint_end"
    /\ Cardinality({k \in 1..Len(trace[1]) :
                        trace[1][k].pc = 3 /\ trace[1][k].sub = 0}) = 2
    /\ trace[1][Len(trace[1])].pc = 4


\* worker 1 executes a joint_end that finds items remaining in the top frame
LoopEndAdvances ==
    /\ StepsAssembly
    /\ CurrentStep.type = "joint_end"
    /\ loop_stack[1] /= <<>>
    /\ loop_stack[1][Len(loop_stack[1])].idx + 1
         < Len(loop_stack[1][Len(loop_stack[1])].data)

TopFrame == loop_stack[1][Len(loop_stack[1])]

\* C24: a joint_end that finds items remaining in the top frame continues at
\* the step after that frame's loop start: the loop start is not the next
\* step, no frame is pushed, and the frame keeps its start and data with its
\* cursor moved on by one, not reset.
C24_LoopEndJump ==
    [][ LoopEndAdvances
        => /\ i'[1] = TopFrame.start + 1
           /\ Len(loop_stack'[1]) = Len(loop_stack[1])
           /\ loop_stack'[1] = [loop_stack[1] EXCEPT ![Len(loop_stack[1])].idx = @ + 1]
           /\ phase'[1] = "loop" ]_vars

\* the second pass of a nested loop: the inner joint_end has jumped back
\* while the outer frame waits below it
C24_Witness ==
    /\ phase[1] = "loop"
    /\ Len(loop_stack[1]) = 2
    /\ loop_stack[1][2].idx = 1
    /\ i[1] = loop_stack[1][2].start + 1
    /\ trace[1] /= <<>>
    /\ current_job_steps[trace[1][Len(trace[1])].pc].type = "joint_end"


\* the context after an unkeyed frame of this level has bound item
BoundUnkeyed(ctx, item, level) ==
    LET names == IF level > 0 THEN {<<"i">>, VarName(level + 1)} ELSE {<<"i">>}
    IN [n \in DOMAIN ctx \cup names |-> IF n \in names THEN item ELSE ctx[n]]

\* the context after a keyed frame has bound the record item
BoundKeyed(ctx, item) ==
    [n \in DOMAIN ctx \cup DOMAIN item |-> IF n \in DOMAIN item THEN item[n] ELSE ctx[n]]

BoundBy(frame, item) ==
    IF frame.is_dict THEN BoundKeyed(context, item)
    ELSE BoundUnkeyed(context, item, frame.level)

\* C25: a frame that binds an item, its first when it is pushed and the next
\* one at a joint_end, sets i to the item and, exactly when its level is
\* above 0, the variable i<level+1> as well if it is unkeyed, and merges the
\* fields of the record if it is keyed; every other binding is kept, and the
\* level of a frame is the number of frames below it.
C25_BindingRule ==
    [][ /\ (StepsAssembly /\ Len(loop_stack'[1]) > Len(loop_stack[1]))
           => LET frame == loop_stack'[1][Len(loop_stack'[1])]
              IN /\ frame.level = Len(loop_stack[1])
                 /\ context' = BoundBy(frame, frame.data[1])
        /\ LoopEndAdvances
           => context' = BoundBy(TopFrame, TopFrame.data[TopFrame.idx + 2]) ]_vars

\* the inner of two nested unkeyed loops has bound its second item to i and
\* to i2 at its joint_end
C25_Witness ==
    /\ Len(loop_stack[1]) = 2
    /\ ~loop_stack[1][1].is_dict
    /\ ~loop_stack[1][2].is_dict
    /\ loop_stack[1][2].idx = 1
    /\ VarName(2) \in DOMAIN context
    /\ context[VarName(2)] = loop_stack[1][2].data[2]
    /\ context[<<"i">>] = loop_stack[1][2].data[2]
    /\ i[1] = loop_stack[1][2].start + 1


\* the select-all events in the log; no component of these runs issues one
SelectAlls == Cardinality({k \in 1..Len(log) : log[k] = <<"hotkey", <<"a">>>>})

\* the assembly line is one loop opened by its first step
SingleLoop ==
    /\ IsLoopStart(current_job_steps[1])
    /\ CountSteps({"joint_start", "joint_list"}) = 1
    /\ CountSteps({"joint_end"}) = 1

ComponentStep == macros[m_name[1]][idx[1]]

\* worker 1 runs an enter-text step of a component in this transition
TypesText ==
    /\ phase[1] = "macro"
    /\ idx'[1] = idx[1] + 1
    /\ ComponentStep.type = "type"

\* C27: an enter-text step whose value is exactly {i}, run while i is
\* bound, issues a select-all, then the copy of the value of i and the
\* paste; an enter-text step whose value holds no {i} issues the copy of its
\* resolved value and the paste, with no select-all.
C27_TypeFastPath ==
    [][ /\ (TypesText /\ ComponentStep.value = <<"{", "i", "}">>
                      /\ <<"i">> \in DOMAIN context)
           => log' = log \o << <<"hotkey", <<"a">>>>, <<"copy", context[<<"i">>]>>,
                               <<"hotkey", <<"v">>>> >>
        /\ (TypesText /\ ~Contains(ComponentStep.value, <<"{", "i", "}">>))
           => log' = log \o << <<"copy", Substitute(ComponentStep.value, context)>>,
                               <<"hotkey", <<"v">>>> >> ]_vars


\* the component invoked by the assembly step at position pc, <<>> if that
\* step invokes none
InvokedAt(pc) ==
    IF current_job_steps[pc].type = "call_macro"
       /\ current_job_steps[pc].value \in DOMAIN macros
    THEN macros[current_job_steps[pc].value]
    ELSE <<>>

\* C28: while a component is invoked, the loop stack, the assembly cursor
\* and the context stay as they were at the invocation; the steps of the
\* component are visited in list order under those bindings; and an
\* assembly step is executed after an invocation only once the last step of
\* the component has been visited.
C28_InvokeIsSynchronous ==
    /\ [][(phase[1] = "macro" \/ phase'[1] = "macro")
             => /\ loop_stack' = loop_stack
                /\ context' = context
                /\ i'[1] = IF phase'[1] = "macro" THEN i[1] ELSE i[1] + 1]_vars
    /\ [](\A k \in 1..Len(trace[1]) :
             LET v == trace[1][k]
             IN /\ v.sub >= 1
                   => /\ k > 1
                      /\ trace[1][k - 1].pc = v.pc
                      /\ trace[1][k - 1].sub = v.sub - 1
                      /\ trace[1][k - 1].ctx = v.ctx
                      /\ v.sub <= Len(InvokedAt(v.pc))
                /\ (v.sub = 0 /\ k > 1)
                   => trace[1][k - 1].sub = Len(InvokedAt(trace[1][k - 1].pc)))

\* in the second pass of a loop the two steps of component b were visited
\* under the binding i = 2 of the invocation, and then the loop end
C28_Witness ==
    \E k \in 1..(Len(trace[1]) - 3) :
        /\ current_job_steps[trace[1][k].pc] = CM(<<"b">>)
        /\ trace[1][k].sub = 0
        /\ <<"i">> \in DOMAIN trace[1][k].ctx
        /\ trace[1][k].ctx[<<"i">>] = Str(2)
        /\ trace[1][k + 1].sub = 1 /\ trace[1][k + 1].ctx = trace[1][k].ctx
        /\ trace[1][k + 2].sub = 2 /\ trace[1][k + 2].ctx = trace[1][k].ctx
        /\ trace[1][k + 3].sub = 0 /\ trace[1][k + 3].pc = trace[1][k].pc + 1


(* ------------------ an assembly run and a component test -------------- *)

\* the steps in the component editor
TestMacros ==
    { <<AT("type", <<"{", "i", "}">>)>>,
      <<AT("key", <<"k">>), AT("type", <<"{", "x", "}">>)>> }

\* the engine and the App with an assembly line loaded and a component open
\* in the editor
InitTest ==
    /\ macros = Macros0
    /\ jobs = <<>>
    /\ PkgIdle
    /\ wait = WaitIdle
    /\ current_macro \in TestMacros
    /\ btn_emergency_stop_macro = "disabled"
    /\ ShopIdle
    /\ context = <<>>
    /\ is_running = FALSE
    /\ current_job_steps \in RacePrograms
    /\ btn_emergency_stop = "disabled"
    /\ phase = [w \in Runs |-> "idle"]
    /\ i = [w \in Runs |-> 1]
    /\ loop_stack = [w \in Runs |-> <<>>]
    /\ m_name = [w \in Runs |-> <<>>]
    /\ idx = [w \in Runs |-> 1]
    /\ trace = [w \in Runs |-> <<>>]
    /\ log = <<>>
    /\ stopped = [w \in Runs |-> -1]
    /\ raising = {}

\* worker 1 runs the assembly line and worker 2 tests the component, in any
\* order and with any overlap
NextTest ==
    \/ run_current_job(1)
    \/ Worker(1)
    \/ test_current_macro(2)
    \/ TestEntry(2)
    \/ TestStep(2)
    \/ TestEnd(2)
    \/ emergency_stop

SpecTest == InitTest /\ [][NextTest]_vars

\* C17: when a run begins (run_steps after its prologue, or the component
\* test at its call of run_macro_steps) while no other run is active, the
\* context holds no binding.
C17_ContextResetAtStart ==
    [][ \A w \in Runs :
          (/\ phase[w] \in {"entered", "test spawned"}
           /\ phase'[w] \in {"loop", "test"}
           /\ ActiveRuns \subseteq {w})
          => context' = <<>> ]_vars


\* C18: an atomic step placed directly in the assembly line is dispatched
\* by run_steps as the component runner dispatches it: the same
\* substitution, the same input actions.
C18_AtomicStepInAssembly ==
    [][ (/\ StepsAssembly
         /\ CurrentStep.type
              \notin {"joint_start", "joint_list", "joint_end", "call_macro"})
        => \E onscreen \in BOOLEAN :
              log' = log \o Dispatch(CurrentStep.type,
                                     Substitute(CurrentStep.value, context),
                                     context, onscreen) ]_vars


(* --------------------------- the marketplace --------------------------- *)

MaxPoints == 1

\* what the server answers: no answer at all, status 200, another status,
\* another status whose error message speaks of points; points is the balance
\* a 200 answer carries
Responses == [kind : {"neterr", "ok", "error", "points"}, points : 0..MaxPoints]

\* the zip_data of a 200 answer to /download: an archive of the item, an
\* archive without data.json, bytes that are no archive, or a value that
\* base64 cannot decode
Bodies == {"good", "nodata", "corrupt", "undecodable"}

\* the items the server lists
ItemsOnSale ==
    <<[id |-> 1, name |-> <<"f">>, price |-> 0],
      [id |-> 2, name |-> <<"g">>, price |-> 1]>>

BodyArchive(body, name) ==
    CASE body = "good" -> Archive(TRUE, NamedMeta(name), TRUE, <<AT("key", <<"1">>)>>, <<>>)
      [] body = "nodata" -> Archive(TRUE, NamedMeta(name), FALSE, <<>>, <<>>)
      [] OTHER -> CorruptArchive

\* _save_user_info
SaveUserInfo(m) == [m EXCEPT !.saved = [token |-> m.user_token, points |-> m.points]]

\* one API call: failed says whether the request was served, ret is what
\* the caller receives
Call(op, failed, ret) == [op |-> op, failed |-> failed, ret |-> ret]

\* MarketplaceAPI.login
Login(m, resp) ==
    IF resp.kind = "ok"
    THEN SaveUserInfo([m EXCEPT !.user_token = "t", !.points = resp.points,
                                !.call = Call("login", FALSE, "true")])
    ELSE [m EXCEPT !.call = Call("login", TRUE, "false")]

\* MarketplaceAPI.get_points: the balance it returns is the stored one when
\* the request raised or was answered with another status
GetPoints(m, resp) ==
    IF m.user_token = ""
    THEN [m EXCEPT !.call = Call("get_points", FALSE, 0)]
    ELSE IF resp.kind = "ok"
         THEN SaveUserInfo([m EXCEPT !.points = resp.points,
                                     !.call = Call("get_points", FALSE, resp.points)])
         ELSE [m EXCEPT !.call = Call("get_points", TRUE, m.points)]

\* MarketplaceAPI.list_items
ListItems(m, resp) ==
    IF resp.kind = "ok"
    THEN [m EXCEPT !.call = Call("list_items", FALSE, "true")]
    ELSE [m EXCEPT !.call = Call("list_items", TRUE, "false")]

\* MarketplaceAPI.upload_item; readable says whether zip_path can be read
UploadItem(m, readable, resp) ==
    IF m.user_token = "" \/ ~readable \/ resp.kind /= "ok"
    THEN [m EXCEPT !.call = Call("upload_item", TRUE, "false")]
    ELSE SaveUserInfo([m EXCEPT !.points = resp.points,
                                !.call = Call("upload_item", FALSE, "true")])

\* download_item reporting success whatever happened
DownloadItemLenient(m, resp, body) ==
    [m EXCEPT !.call = Call("download_item",
                            m.user_token = "" \/ resp.kind /= "ok" \/ body = "undecodable",
                            "true")]

\* MarketplaceAPI.download_item: a 200 answer updates and saves the balance
\* before zip_data is decoded
DownloadItem(m, resp, body) ==
    IF m.user_token = "" \/ resp.kind /= "ok"
    THEN [m EXCEPT !.call = Call("download_item", TRUE, "false")]
    ELSE LET paid == SaveUserInfo([m EXCEPT !.points = resp.points])
         IN IF body = "undecodable"
            THEN [paid EXCEPT !.call = Call("download_item", TRUE, "false")]
            ELSE [paid EXCEPT !.call = Call("download_item", FALSE, "true")]

\* temp_download_{int(time.time())}.zip
TempPath(now) == <<"temp_download_">> \o Str(now) \o <<".zip">>

\* the stores and their documents, and the number of packaging calls made
Stores ==
    [macros |-> macros, jobs |-> jobs, saved_macros |-> saved_macros,
     saved_jobs |-> saved_jobs, calls |-> calls]

\* buy_macro and buy_job up to the dialog
buy_item(kind) ==
    /\ buy.pc = "idle"
    /\ calls < MaxCalls
    /\ \E resp \in Responses, items \in {<<>>, ItemsOnSale} :
          /\ market' = ListItems(market, resp)
          /\ buy' = IF market'.call.ret = "true" /\ items /= <<>>
                    THEN [BuyIdle EXCEPT !.pc = "dialog", !.kind = kind,
                                         !.items = items, !.before = Stores]
                    ELSE [BuyIdle EXCEPT !.kind = kind, !.before = Stores,
                                         !.failed = market'.call.failed]
    /\ UNCHANGED <<macros, jobs, pkgVars, runVars, wait, testVars>>

\* _buy: the selection and the login check
BuySelect ==
    /\ buy.pc = "dialog"
    /\ \E sel \in 1..Len(buy.items) :
          buy' = [buy EXCEPT !.item = sel, !.failed = FALSE,
                             !.pc = IF market.user_token = "" THEN "login"
                                    ELSE "confirm"]
    /\ UNCHANGED <<macros, jobs, pkgVars, runVars, wait, testVars, market>>

\* _show_login_dialog._login
BuyLogin ==
    /\ buy.pc = "login"
    /\ \E resp \in Responses :
          /\ market' = Login(market, resp)
          /\ buy' = IF market'.call.ret = "true"
                    THEN [buy EXCEPT !.pc = "confirm"]
                    ELSE buy
    /\ UNCHANGED <<macros, jobs, pkgVars, runVars, wait, testVars>>

\* the login dialog closed without a login: _buy returns
BuyLoginClosed ==
    /\ buy.pc = "login"
    /\ buy' = [buy EXCEPT !.pc = "dialog", !.failed = TRUE]
    /\ UNCHANGED <<macros, jobs, pkgVars, runVars, wait, testVars, market>>

\* _buy: the balance and the confirmation of a priced item
BuyConfirm ==
    /\ buy.pc = "confirm"
    /\ IF buy.items[buy.item].price > 0
       THEN \E resp \in Responses, yes \in BOOLEAN :
               /\ market' = GetPoints(market, resp)
               /\ buy' = [buy EXCEPT !.pc = IF yes THEN "download" ELSE "dialog"]
       ELSE /\ buy' = [buy EXCEPT !.pc = "download"]
            /\ market' = market
    /\ UNCHANGED <<macros, jobs, pkgVars, runVars, wait, testVars>>

\* _buy: download_item and the branch on its success
BuyDownload ==
    /\ buy.pc = "download"
    /\ \E resp \in Responses, body \in Bodies :
          /\ market' = DownloadItem(market, resp, body)
          /\ IF market'.call.ret = "true"
             THEN /\ archives' = (TempPath(clock) :>
                                     BodyArchive(body, buy.items[buy.item].name))
                                 @@ archives
                  /\ buy' = [buy EXCEPT !.pc = "import", !.zip = TempPath(clock),
                                        !.failed = market'.call.failed]
             ELSE /\ archives' = archives
                  /\ buy' = [buy EXCEPT !.pc = "idle", !.failed = market'.call.failed,
                                        !.message = "error"]
    /\ UNCHANGED <<macros, jobs, images, scratch, saved_macros, saved_jobs, clock,
                   result, calls, runVars, wait, testVars>>

\* _buy: import_macro or import_job on the downloaded file
BuyImport ==
    /\ buy.pc = "import"
    /\ \E fail \in ImportFailures \cup {"none"} : Import(buy.kind, buy.zip, <<>>, fail)
    /\ buy' = [buy EXCEPT !.pc = "finish"]
    /\ UNCHANGED <<runVars, wait, testVars, market>>

\* _buy: the success message and the points display after an import that
\* returned a name, and the removal of the downloaded file; an import that
\* returned None or raised shows no message box
BuyFinish ==
    /\ buy.pc = "finish"
    /\ IF result.ret = "ok"
       THEN \E resp \in Responses : market' = GetPoints(market, resp)
       ELSE market' = market
    /\ archives' = [p \in DOMAIN archives \ {buy.zip} |-> archives[p]]
    /\ buy' = [buy EXCEPT !.pc = "idle",
                          !.message = IF result.ret = "ok" THEN "success" ELSE "none"]
    /\ UNCHANGED <<macros, jobs, images, scratch, saved_macros, saved_jobs, clock,
                   result, calls, runVars, wait, testVars>>

\* upload_item called with a file that exists or not
upload_item ==
    /\ buy.pc = "idle"
    /\ \E zip_path \in {<<"f1.zip">>, OutputPath}, resp \in Responses :
          market' = UploadItem(market, zip_path \in DOMAIN archives, resp)
    /\ UNCHANGED <<macros, jobs, pkgVars, runVars, wait, testVars, buy>>

\* the program starts with or without a user_info.json
InitMarket ==
    /\ macros \in PkgStores
    /\ jobs = PkgJobs0
    /\ images = Images0
    /\ archives = Archives0
    /\ scratch = {}
    /\ saved_macros = Document(macros)
    /\ saved_jobs = Document(jobs)
    /\ clock = 0
    /\ result = NoResult
    /\ calls = 0
    /\ wait = WaitIdle
    /\ TestIdle
    /\ \E token \in {"", "t"}, points \in 0..MaxPoints :
          market = [MarketIdle EXCEPT !.user_token = token,
                       !.points = IF token = "" THEN 0 ELSE points,
                       !.saved = [token |-> token,
                                  points |-> IF token = "" THEN 0 ELSE points]]
    /\ buy = BuyIdle
    /\ context = <<>>
    /\ is_running = FALSE
    /\ current_job_steps = <<>>
    /\ btn_emergency_stop = "disabled"
    /\ phase = [w \in Runs |-> "idle"]
    /\ i = [w \in Runs |-> 1]
    /\ loop_stack = [w \in Runs |-> <<>>]
    /\ m_name = [w \in Runs |-> <<>>]
    /\ idx = [w \in Runs |-> 1]
    /\ trace = [w \in Runs |-> <<>>]
    /\ log = <<>>
    /\ stopped = [w \in Runs |-> -1]
    /\ raising = {}
    /\ pkg_ops = <<>>
    /\ tree = <<>>
    /\ shared = NoSharing

NextMarket ==
    \/ buy_item("macro")
    \/ buy_item("job")
    \/ BuySelect
    \/ BuyLogin
    \/ BuyLoginClosed
    \/ BuyConfirm
    \/ BuyDownload
    \/ BuyImport
    \/ BuyFinish
    \/ upload_item

\* purchases of components and assembly lines, one after another
SpecMarket == InitMarket /\ [][NextMarket]_vars


(* --------------------- claims about the marketplace -------------------- *)

\* C19: whenever the last purchase attempt failed (the list could not be
\* fetched, the login was given up, or download_item failed on a network
\* error, another status, a missing token or an insufficient balance), the
\* component store, the assembly store and their documents are what they
\* were when the purchase flow began, no import has been called since, and
\* none is about to be
C19_FailedCallKeepsStores ==
    buy.failed => /\ Stores = buy.before
                  /\ buy.pc \notin {"import", "finish"}

\* a priced download was refused for lack of points in a session that had
\* already imported a purchased item
C19_Witness ==
    /\ buy.failed
    /\ market.call = Call("download_item", TRUE, "false")
    /\ buy.item = 2
    /\ buy.pc = "idle"
    /\ calls = 1
    /\ result.ret = "ok"

\* the values a successful call of an API operation returns
SuccessValues(op) == IF op = "get_points" THEN 0..MaxPoints ELSE {"true"}

\* C20: a MarketplaceAPI call that failed returned a value no successful
\* call of that operation returns, and an export or import in which a step
\* failed did not return its success value
C20_FailuresDistinguishable ==
    /\ market.call.failed => market.call.ret \notin SuccessValues(market.call.op)
    /\ result.fail /= "none" => result.ret \notin {"ok", "true"}


(* ------------------------ the component runner ------------------------ *)

\* components with steps that fail (a malformed coordinate, an image that
\* may not be on the screen, a key the input capability may refuse), a
\* component that names itself, two that name each other, and one that
\* holds loop steps
CompMacros ==
    (<<"f">> :> <<AT("click_xy", <<"a", ",", "b">>), CK(<<"images", "c.png">>),
                  AT("key", <<"k">>), AT("type", <<"{", "i", "}">>)>>)
    @@ (<<"r">> :> <<AT("key", <<"1">>), CM(<<"r">>), AT("key", <<"2">>)>>)
    @@ (<<"p">> :> <<CM(<<"q">>), JS(Str(2)), JL(<<"A">>), AT("key", <<"p">>), JE>>)
    @@ (<<"q">> :> <<CM(<<"p">>)>>)

\* an assembly line is loaded that runs them in a list loop and in a count
\* loop; the input capability works, refuses keys, or refuses clicks and
\* pastes
InitComp ==
    /\ InitRun({ <<JL(<<"A", "\n", "B">>), CM(<<"f">>), JE, AT("key", <<"k">>),
                   CM(<<"r">>)>>,
                 <<JS(Str(MaxCount)), CM(<<"r">>), CM(<<"p">>), JE, CM(<<"z">>)>> },
               {CompMacros})
    /\ raising \in {{}, {"key"}, {"type", "click"}}

\* one run of an assembly line over these components, which may be stopped;
\* the worker thread is scheduled as long as it has a step to take
SpecComp == InitComp /\ [][Next]_vars /\ WF_vars(Worker(1))


(* ------------------ claims about the component runner ----------------- *)

\* worker 1 runs a component step and the step fails
StepFails ==
    /\ phase[1] = "macro"
    /\ idx'[1] = idx[1] + 1
    /\ \E tag \in {"error", "not found"} : log' = Append(log, Status(tag))

\* the trace of worker 1 shows, after every visit of an invoke-component
\* step whose component is stored, one visit per step of that component, in
\* list order
RECURSIVE EveryStepVisited(_)
EveryStepVisited(k) ==
    IF k > Len(trace[1]) THEN TRUE
    ELSE LET v == trace[1][k]
             step == current_job_steps[v.pc]
             n == IF v.sub = 0 /\ step.type = "call_macro" /\ step.value \in DOMAIN macros
                  THEN Len(macros[step.value])
                  ELSE 0
         IN /\ v.sub = 0
            /\ k + n <= Len(trace[1])
            /\ \A j \in 1..n : trace[1][k + j].pc = v.pc /\ trace[1][k + j].sub = j
            /\ EveryStepVisited(k + n + 1)

\* C21: a component step that fails (image not found, malformed
\* coordinates, exception of the input capability) adds its report to the
\* log and changes nothing but the step index: the running flag, the
\* context, the loop stack and the assembly cursor are kept; and a run that
\* was not stopped ends with every step of every invoked component and
\* every assembly step visited in order
C21_FailureDoesNotDerail ==
    /\ [][StepFails => /\ is_running' /\ is_running
                       /\ phase' = phase /\ i' = i
                       /\ loop_stack' = loop_stack /\ context' = context]_vars
    /\ [](phase[1] = "done" /\ stopped[1] = -1
            => i[1] > Len(current_job_steps) /\ EveryStepVisited(1))

\* a run in which a coordinate was malformed, an image was not found and a
\* key was refused ended after going through its whole assembly line
C21_Witness ==
    /\ raising = {"key"}
    /\ phase[1] = "done"
    /\ stopped[1] = -1
    /\ i[1] > Len(current_job_steps)
    /\ \E k \in 1..(Len(log) - 3) :
          /\ log[k] = Status("error")
          /\ log[k + 1] = Status("not found")
          /\ log[k + 2] = Status("error")
          /\ log[k + 3][1] = "copy"


\* the stored component name has a step that invokes name itself, or a
\* component that invokes name back
Invokes(from, to) ==
    \E k \in 1..Len(macros[from]) :
        macros[from][k].type = "call_macro" /\ macros[from][k].value = to

SelfReferencing(name) ==
    /\ name \in DOMAIN macros
    /\ \/ Invokes(name, name)
       \/ \E other \in DOMAIN macros : Invokes(name, other) /\ Invokes(other, name)

\* worker 1 has invoked a self-referencing component
InvokedSelfReferencing ==
    \E k \in 1..Len(trace[1]) :
        /\ trace[1][k].sub = 0
        /\ current_job_steps[trace[1][k].pc].type = "call_macro"
        /\ SelfReferencing(current_job_steps[trace[1][k].pc].value)

C29_LoopStepsIgnoredInComponent ==
    /\ [][(/\ phase[1] = "macro"
           /\ idx'[1] /= idx[1]
           /\ ComponentStep.type \in {"joint_start", "joint_list", "joint_end",
                                      "call_macro"})
          => /\ log' = log
             /\ context' = context
             /\ loop_stack' = loop_stack
             /\ macros' = macros /\ jobs' = jobs
             /\ idx'[1] = idx[1] + 1
             /\ m_name' = m_name /\ i' = i /\ phase' = phase]_vars
    /\ [](phase[1] = "done" /\ stopped[1] = -1 => EveryStepVisited(1))

\* the component that holds an invoke step, two loop starts, a key step and
\* a loop end was run to its end inside a loop: its key was pressed and the
\* loop stack held the frame of the assembly loop only
C29_Witness ==
    /\ phase[1] = "macro"
    /\ m_name[1] = <<"p">>
    /\ idx[1] = Len(macros[<<"p">>]) + 1
    /\ Len(loop_stack[1]) = 1
    /\ DOMAIN context = {<<"i">>}
    /\ log[Len(log)] = <<"press", <<"p">>>>
    /\ stopped[1] = -1


(* ---------------------- packaging calls that overlap ------------------- *)

MaxClock == 1

\* the two threads that call a packaging operation
Callers == {1, 2}

\* what caller p exports, and what the archive it imports holds
Payload(p) == <<AT("key", Str(p))>>

ZipOf(p) == <<"in">> \o Str(p)

OutOf(p) == <<"out">> \o Str(p)

ExportOps == {"export_macro", "export_job"}

\* the members of a directory that holds no file
EmptyDir == [has_meta |-> FALSE, metadata |-> EmptyMeta, has_data |-> FALSE, data |-> <<>>]

Members(dir) == IF dir \in scratch THEN tree[dir] ELSE EmptyDir

\* temp_dir = f"temp_..._{int(time.time())}"; os.makedirs(temp_dir, exist_ok=True)
PkgBegin(p) ==
    /\ pkg_ops[p].pc = "idle"
    /\ \E op \in ExportOps \cup ImportOps :
          LET d == TempDir(IF op \in ExportOps THEN "temp_export" ELSE "temp_import", clock)
          IN /\ pkg_ops' = [pkg_ops EXCEPT ![p] =
                               [@ EXCEPT !.pc = "fill", !.op = op, !.temp_dir = d]]
             /\ scratch' = scratch \cup {d}
             /\ tree' = (d :> Members(d)) @@ tree
    /\ UNCHANGED <<macros, jobs, images, archives, saved_macros, saved_jobs, clock,
                   result, calls, stepVars, wait, testVars, shopVars>>

\* export: data.json and metadata.json are written into temp_dir, and
\* opening a file in a directory that is gone raises; import: the archive
\* is extracted into temp_dir, over the files that are there
PkgFill(p) ==
    /\ pkg_ops[p].pc = "fill"
    /\ LET d == pkg_ops[p].temp_dir
           op == pkg_ops[p].op
           kind == IF op \in {"export_macro", "import_macro"} THEN "macro" ELSE "job"
           a == archives[ZipOf(p)]
       IN IF op \in ExportOps
          THEN IF d \in scratch
               THEN /\ tree' = [tree EXCEPT ![d] =
                                  [has_meta |-> TRUE,
                                   metadata |-> ExportMeta(kind, <<"m">> \o Str(p),
                                                           NoMetadataIn, clock),
                                   has_data |-> TRUE, data |-> Payload(p)]]
                    /\ pkg_ops' = [pkg_ops EXCEPT ![p].pc = "read"]
                    /\ scratch' = scratch
               ELSE /\ pkg_ops' = [pkg_ops EXCEPT ![p].pc = "done", ![p].ret = "raised"]
                    /\ UNCHANGED <<tree, scratch>>
          ELSE /\ scratch' = scratch \cup {d}
               /\ tree' = (d :> [has_meta |-> a.has_meta \/ Members(d).has_meta,
                                 metadata |-> IF a.has_meta THEN a.metadata
                                              ELSE Members(d).metadata,
                                 has_data |-> a.has_data \/ Members(d).has_data,
                                 data |-> IF a.has_data THEN a.data ELSE Members(d).data])
                          @@ tree
               /\ pkg_ops' = [pkg_ops EXCEPT ![p].pc = "read"]
    /\ UNCHANGED <<macros, jobs, images, archives, saved_macros, saved_jobs, clock,
                   result, calls, stepVars, wait, testVars, shopVars>>

\* export: the files found under temp_dir are written to the output
\* archive; import: metadata.json and data.json are read from temp_dir and
\* the item is stored and saved
PkgRead(p) ==
    /\ pkg_ops[p].pc = "read"
    /\ LET d == pkg_ops[p].temp_dir
           op == pkg_ops[p].op
           found == Members(d)
           store == IF op = "import_macro" THEN macros ELSE jobs
           metadata == IF found.has_meta THEN found.metadata ELSE EmptyMeta
           final_name == FinalName(<<>>, metadata,
                                   IF op = "import_macro" THEN <<"imported_macro">>
                                   ELSE <<"imported_job">>, store)
           added == (final_name :> found.data) @@ store
       IN IF op \in ExportOps
          THEN /\ archives' = (OutOf(p) :> Archive(found.has_meta, found.metadata,
                                                   found.has_data, found.data, <<>>))
                              @@ archives
               /\ pkg_ops' = [pkg_ops EXCEPT ![p].pc = "cleanup", ![p].ret = "true",
                                            ![p].got = found.data]
               /\ UNCHANGED <<macros, jobs, saved_macros, saved_jobs, scratch, tree>>
          ELSE IF ~found.has_data
               THEN /\ scratch' = RmTree(scratch, d)
                    /\ tree' = [x \in DOMAIN tree \ {d} |-> tree[x]]
                    /\ pkg_ops' = [pkg_ops EXCEPT ![p].pc = "done", ![p].ret = "none"]
                    /\ UNCHANGED <<macros, jobs, saved_macros, saved_jobs, archives>>
               ELSE /\ macros' = IF op = "import_macro" THEN added ELSE macros
                    /\ jobs' = IF op = "import_job" THEN added ELSE jobs
                    /\ saved_macros' = Document(macros')
                    /\ saved_jobs' = Document(jobs')
                    /\ pkg_ops' = [pkg_ops EXCEPT ![p].pc = "cleanup", ![p].ret = "ok",
                                                 ![p].got = found.data]
                    /\ UNCHANGED <<archives, scratch, tree>>
    /\ UNCHANGED <<images, clock, result, calls, stepVars, wait, testVars, shopVars>>

\* shutil.rmtree(temp_dir, ignore_errors=True) and the return
PkgCleanup(p) ==
    /\ pkg_ops[p].pc = "cleanup"
    /\ scratch' = RmTree(scratch, pkg_ops[p].temp_dir)
    /\ tree' = [x \in DOMAIN tree \ {pkg_ops[p].temp_dir} |-> tree[x]]
    /\ pkg_ops' = [pkg_ops EXCEPT ![p].pc = "done"]
    /\ UNCHANGED <<macros, jobs, images, archives, saved_macros, saved_jobs, clock,
                   result, calls, stepVars, wait, testVars, shopVars>>

\* a second passes: int(time.time()) grows by one
Tick ==
    /\ clock < MaxClock
    /\ clock' = clock + 1
    /\ UNCHANGED <<macros, jobs, images, archives, scratch, saved_macros, saved_jobs,
                   result, calls, runVars, wait, testVars, shopVars>>

InitOverlap ==
    /\ macros = PkgMacros0
    /\ jobs = PkgJobs0
    /\ images = Images0
    /\ archives = [z \in {ZipOf(p) : p \in Callers} |->
                     LET p == CHOOSE q \in Callers : ZipOf(q) = z
                     IN Archive(TRUE, NamedMeta(<<"n">> \o Str(p)), TRUE, Payload(p), <<>>)]
    /\ scratch = {}
    /\ tree = <<>>
    /\ shared = NoSharing
    /\ pkg_ops = [p \in Callers |->
                    [pc |-> "idle", op |-> "none", temp_dir |-> <<>>, ret |-> "none",
                     got |-> <<>>]]
    /\ saved_macros = Document(macros)
    /\ saved_jobs = Document(jobs)
    /\ clock = 0
    /\ result = NoResult
    /\ calls = 0
    /\ wait = WaitIdle
    /\ TestIdle
    /\ ShopIdle
    /\ raising = {}
    /\ context = <<>>
    /\ is_running = FALSE
    /\ current_job_steps = <<>>
    /\ btn_emergency_stop = "disabled"
    /\ phase = [w \in Runs |-> "idle"]
    /\ i = [w \in Runs |-> 1]
    /\ loop_stack = [w \in Runs |-> <<>>]
    /\ m_name = [w \in Runs |-> <<>>]
    /\ idx = [w \in Runs |-> 1]
    /\ trace = [w \in Runs |-> <<>>]
    /\ log = <<>>
    /\ stopped = [w \in Runs |-> -1]

NextOverlap ==
    \/ \E p \in Callers : PkgBegin(p) \/ PkgFill(p) \/ PkgRead(p) \/ PkgCleanup(p)
    \/ Tick

\* two packaging calls made from two threads, in the same second or not
SpecOverlap == InitOverlap /\ [][NextOverlap]_vars


(* ---------------- claims about overlapping packaging ------------------ *)

Working(p) == pkg_ops[p].pc \in {"fill", "read", "cleanup"}

\* C22: two packaging calls that are under way at the same time have
\* different scratch directories, and every call that has returned has
\* succeeded with its own data: the export wrote the steps it was given, the
\* import stored the steps of the archive it was given
C22_OverlappingPackagingSafe ==
    /\ \A p \in Callers, q \in Callers :
          p /= q /\ Working(p) /\ Working(q)
             => pkg_ops[p].temp_dir /= pkg_ops[q].temp_dir
    /\ \A p \in Callers :
          pkg_ops[p].pc = "done"
             => pkg_ops[p].ret \in {"true", "ok"} /\ pkg_ops[p].got = Payload(p)

(* ------------------ a run that waits, loops and is stopped ------------- *)

\* the component store: w waits for the screen and presses a key
StopMacros ==
    (<<"w">> :> <<AT("smart_wait", <<"1">>), AT("key", <<"k">>)>>)

StopPrograms ==
    { <<CM(<<"w">>), AT("key", <<"k">>)>>,
      <<JL(<<"A", "\n", "B">>), CM(<<"w">>), JE>> }

\* float(sval) if sval else 5.0, and 5.0 when the text is no number, in
\* polling intervals of 0.5 s
SmartWaitTimeout(sval) == IF IsDigit(sval) THEN 2 * IntOf(sval) ELSE 10

\* the component runner is at a smart_wait step it is about to dispatch
AtSmartWait(w) ==
    /\ phase[w] = "macro"
    /\ idx[w] <= Len(macros[m_name[w]])
    /\ is_running
    /\ macros[m_name[w]][idx[w]].type = "smart_wait"

\* the smart_wait branch of run_macro_steps: the step is substituted,
\* reported and smart_wait is called
SmartWaitCall(w) ==
    /\ AtSmartWait(w)
    /\ wait.pc \in {"idle", "returned"}
    /\ LET sval == Substitute(macros[m_name[w]][idx[w]].value, context)
       IN /\ wait' = [WaitIdle EXCEPT !.pc = "call",
                                      !.timeout = SmartWaitTimeout(sval)]
          /\ log' = Append(log, <<"smart_wait", sval>>)
    /\ trace' = [trace EXCEPT ![w] = Append(@, Visit(w, idx[w]))]
    /\ UNCHANGED <<macros, jobs, pkgVars, testVars, shopVars, context,
                   is_running, current_job_steps, btn_emergency_stop, phase, i,
                   loop_stack, m_name, idx, stopped, raising, pkg_ops, tree, shared>>

\* smart_wait has returned: the for loop of run_macro_steps goes on
SmartWaitReturn(w) ==
    /\ phase[w] = "macro"
    /\ wait.pc = "done"
    /\ wait' = [wait EXCEPT !.pc = "returned"]
    /\ idx' = [idx EXCEPT ![w] = @ + 1]
    /\ UNCHANGED <<macros, jobs, pkgVars, testVars, shopVars, context,
                   is_running, current_job_steps, btn_emergency_stop, phase, i,
                   loop_stack, m_name, trace, log, stopped, raising, pkg_ops,
                   tree, shared>>

\* the worker is inside smart_wait
InSmartWait == wait.pc \in {"call", "test", "sleep", "grab", "done"}

InitStop ==
    /\ macros = StopMacros
    /\ jobs = <<>>
    /\ PkgIdle
    /\ wait = WaitIdle
    /\ current_macro = <<AT("key", <<"t">>)>>
    /\ btn_emergency_stop_macro = "disabled"
    /\ ShopIdle
    /\ context = <<>>
    /\ is_running = FALSE
    /\ current_job_steps \in StopPrograms
    /\ btn_emergency_stop = "disabled"
    /\ phase = [w \in Runs |-> "idle"]
    /\ i = [w \in Runs |-> 1]
    /\ loop_stack = [w \in Runs |-> <<>>]
    /\ m_name = [w \in Runs |-> <<>>]
    /\ idx = [w \in Runs |-> 1]
    /\ trace = [w \in Runs |-> <<>>]
    /\ log = <<>>
    /\ stopped = [w \in Runs |-> -1]
    /\ raising \in {{}, {"joint_list"}, {"joint_end"}}

\* worker 1 runs the assembly line, polling inside smart_wait; the run may
\* be stopped and a test of the editor's component may be requested at any
\* moment
NextStop ==
    \/ run_current_job(1)
    \/ (~InSmartWait /\ ~AtSmartWait(1) /\ Worker(1))
    \/ SmartWaitCall(1)
    \/ SmartWaitBegin
    \/ SmartWaitTest
    \/ SmartWaitSleep
    \/ SmartWaitGrab
    \/ SmartWaitReturn(1)
    \/ test_current_macro(2)
    \/ TestEntry(2)
    \/ TestStep(2)
    \/ TestEnd(2)
    \/ emergency_stop

SpecStop == InitStop /\ [][NextStop]_vars

(* ------------------------ claims about stopping ------------------------ *)

\* C31: once a stop is requested while smart_wait is polling, smart_wait
\* captures at most one more frame, its next loop test ends the call
\* whatever the screen and the clock are, and the run executes no further
\* step.
C31_StopEndsSmartWait ==
    [][ wait.stop /= -1
        => /\ Len(wait'.caps) <= wait.stop + 1
           /\ wait.pc = "test" => wait'.pc = "done"
           /\ trace'[1] = trace[1] ]_vars

(* ---------------------- termination of the interpreter ---------------- *)

\* the worker thread is scheduled as long as it has a step to take
SpecFair == Spec /\ WF_vars(Worker(1))

\* a step of the assembly line was executed more than once
Jumped ==
    \E a, b \in 1..Len(trace[1]) :
        a < b /\ trace[1][a].sub = 0 /\ trace[1][b].sub = 0
              /\ trace[1][a].pc = trace[1][b].pc

\* C32: every run of a step list, balanced or not, with its loop markers in
\* any order, completes: its worker reaches the end of run_steps, with the
\* step index past the last step or after a stop request was observed.
C32_RunTerminates ==
    phase[1] = "spawned"
    ~> (/\ phase[1] = "done"
        /\ i[1] > Len(current_job_steps) \/ stopped[1] /= -1)

\* a run of an unbalanced step list has jumped back and has completed
\* without a stop request
C32_Witness ==
    /\ Unbalanced
    /\ Jumped
    /\ phase[1] = "done"
    /\ stopped[1] = -1
    /\ i[1] = Len(current_job_steps) + 1

(* --------------------- loops that yield no items ---------------------- *)

\* the loop-end at position k closes a loop-start that yields no items
ClosesEmptyLoop(steps, k) ==
    \E s \in 1..(k - 1) :
        /\ IsLoopStart(steps[s])
        /\ MatchEnd(steps, s) = k
        /\ ItemsOf(steps[s]) = 0

\* C33: in a well-nested step list, the loop-end of a loop-start that
\* yielded no items, executed inside an enclosing loop, leaves the enclosing
\* frames and the context as they are and goes on to the next step.
C33_EmptyLoopEndKeepsFrame ==
    [][ (/\ StepsAssembly
         /\ CurrentStep.type = "joint_end"
         /\ WellNested(current_job_steps)
         /\ ClosesEmptyLoop(current_job_steps, i[1])
         /\ loop_stack[1] /= <<>>)
        => /\ loop_stack'[1] = loop_stack[1]
           /\ context' = context
           /\ i'[1] = i[1] + 1 ]_vars

(* --------------------------- stack discipline ------------------------- *)

\* the step list is well nested and every loop-start in it yields an item
EveryLoopYields(steps) ==
    /\ WellNested(steps)
    /\ \A s \in 1..Len(steps) : IsLoopStart(steps[s]) => ItemsOf(steps[s]) >= 1

\* the number of loop pairs around position k, a loop-end being inside its
\* own pair
Enclosing(steps, k) ==
    Cardinality({s \in 1..(k - 1) : IsLoopStart(steps[s]) /\ MatchEnd(steps, s) >= k})

\* C34: while a well-nested step list whose loop-starts all yield items is
\* run, the stack is as deep as the number of loop pairs around the step to
\* execute, every frame's level is its position in the stack (from 0), and
\* the stack is empty once the run is through the list.
C34_StackDiscipline ==
    EveryLoopYields(current_job_steps)
    => /\ (phase[1] \in {"loop", "macro"} /\ i[1] <= Len(current_job_steps))
            => Len(loop_stack[1]) = Enclosing(current_job_steps, i[1])
       /\ \A k \in 1..Len(loop_stack[1]) : loop_stack[1][k].level = k - 1
       /\ Completed(1) => loop_stack[1] = <<>>

\* the last loop-end of an inner loop is about to be executed on a stack of
\* two frames
C34_Witness ==
    /\ EveryLoopYields(current_job_steps)
    /\ phase[1] = "loop"
    /\ i[1] <= Len(current_job_steps)
    /\ current_job_steps[i[1]].type = "joint_end"
    /\ Len(loop_stack[1]) = 2
    /\ loop_stack[1][2].level = 1
    /\ loop_stack[1][1].idx >= 1

(* --------------------------- the running flag -------------------------- *)

\* no worker thread exists: none was started, or each one has returned or
\* has died of an exception
NoRunExecuting == \A w \in Runs : phase[w] \in {"idle", "done", "aborted"}

\* C35: whenever no run is executing, after a run that finished, was
\* stopped or was ended by an exception of a loop step, is_running is false.
C35_FlagReflectsActivity == NoRunExecuting => ~is_running

(* ------------------------ stop requests that are lost ------------------ *)

\* a stop was requested after worker w was started and before it returned:
\* its stop button, enabled at the start, is disabled again
Cancelled(w) ==
    \/ phase[w] \in {"spawned", "entered", "loop", "macro"}
         /\ btn_emergency_stop = "disabled"
    \/ phase[w] \in {"test spawned", "test"}
         /\ btn_emergency_stop_macro = "disabled"

\* C36: once a stop is requested for a started run, at any moment from the
\* start of its worker on, the flag stays cleared and the run executes no
\* step.
C36_StopNeverLost ==
    [][ \A w \in Runs :
          Cancelled(w) => ~is_running' /\ trace'[w] = trace[w] ]_vars

(* ----------------------- what an import leaves alone ------------------- *)

\* the image files that a click step of a stored component refers to
ReferredImages ==
    {p \in DOMAIN images :
        \E n \in DOMAIN macros : \E k \in 1..Len(macros[n]) :
            macros[n][k].type = "click" /\ macros[n][k].value = p}

\* C37: a successful import_macro or import_job adds one entry to its store
\* and changes no step list that was in either store and no image file that
\* a stored component refers to.
C37_ImportKeepsExisting ==
    [][ (Called(ImportOps) /\ result'.ret = "ok")
        => /\ Cardinality(DOMAIN macros') + Cardinality(DOMAIN jobs')
                = Cardinality(DOMAIN macros) + Cardinality(DOMAIN jobs) + 1
           /\ \A n \in DOMAIN macros : n \in DOMAIN macros' /\ macros'[n] = macros[n]
           /\ \A n \in DOMAIN jobs : n \in DOMAIN jobs' /\ jobs'[n] = jobs[n]
           /\ \A p \in ReferredImages : p \in DOMAIN images' /\ images'[p] = images[p]
      ]_vars

(* --------------------------- a purchase's outcome ---------------------- *)

\* the purchase flow has ended after a download that succeeded
Purchased == buy.pc = "idle" /\ buy.zip /= <<>>

\* C38: a purchase whose download succeeded ends with the item in the local
\* store or with an error shown to the user.
C38_NoSilentLoss ==
    Purchased => \/ DOMAIN macros /= DOMAIN buy.before.macros
                 \/ DOMAIN jobs /= DOMAIN buy.before.jobs
                 \/ buy.message = "error"

(* ------------------------------ the editors --------------------------- *)

\* the longest working list, and the numbers of step objects and of list
\* objects a session creates
MaxSteps == 2
MaxObjects == 3
MaxLists == 5

\* the content of list object l of heap h
ListOf(h, l) == [k \in 1..Len(h.lists[l]) |-> h.steps[h.lists[l][k]]]

\* a sequence without its k-th element, and with two elements exchanged
Without(seq, k) == SubSeq(seq, 1, k - 1) \o SubSeq(seq, k + 1, Len(seq))

Swapped(seq, a, b) == [seq EXCEPT ![a] = seq[b], ![b] = seq[a]]

\* what the program sees once the objects are as in h: each store entry and
\* each editor shows the list object it holds; save_all rewrites both
\* documents
Editor(h, save_all) ==
    /\ shared' = h
    /\ macros' = [n \in DOMAIN h.macro |-> ListOf(h, h.macro[n])]
    /\ jobs' = [n \in DOMAIN h.job |-> ListOf(h, h.job[n])]
    /\ current_macro' = ListOf(h, h.cur_macro)
    /\ current_job_steps' = ListOf(h, h.cur_job)
    /\ saved_macros' = IF save_all THEN Document(macros') ELSE saved_macros
    /\ saved_jobs' = IF save_all THEN Document(jobs') ELSE saved_jobs
    /\ UNCHANGED <<context, is_running, btn_emergency_stop, phase, i, loop_stack,
                   m_name, idx, trace, log, stopped, raising, images, archives,
                   scratch, clock, result, calls, wait, btn_emergency_stop_macro,
                   shopVars, pkg_ops, tree>>

\* self.current_macro.append({"type": t, "value": val})
add_step ==
    /\ Len(current_macro) < MaxSteps
    /\ Len(shared.steps) < MaxObjects
    /\ \E val \in {<<"1">>} :
          Editor([shared EXCEPT !.steps = Append(@, AT("key", val)),
                                !.lists[shared.cur_macro] =
                                    Append(@, Len(shared.steps) + 1)], FALSE)

\* self.current_macro[self.selected_step_idx]["value"] = val
on_prop_change ==
    \E k \in 1..Len(current_macro), val \in {<<"1">>, <<"2">>} :
        /\ current_macro[k].value /= val
        /\ Editor([shared EXCEPT !.steps[shared.lists[shared.cur_macro][k]].value = val],
                  FALSE)

\* del self.current_macro[i], for one selected step
delete_steps ==
    \E k \in 1..Len(current_macro) :
        Editor([shared EXCEPT !.lists[shared.cur_macro] = Without(@, k)], FALSE)

\* the selected step changes places with its neighbour
move_step ==
    \E k \in 1..Len(current_macro), d \in {-1, 1} :
        /\ k + d \in 1..Len(current_macro)
        /\ Editor([shared EXCEPT !.lists[shared.cur_macro] = Swapped(@, k, k + d)],
                  FALSE)

\* self.engine.macros[name] = self.current_macro; self.engine.save_all()
save_macro ==
    \E name \in {<<"a">>, <<"b">>} :
        Editor([shared EXCEPT !.macro = (name :> shared.cur_macro) @@ @], TRUE)

\* self.current_macro = self.engine.macros.get(name, []).copy(): a new list
\* of the same step objects
load_macro ==
    /\ Len(shared.lists) < MaxLists
    /\ \E name \in DOMAIN macros :
          Editor([shared EXCEPT !.lists = Append(@, shared.lists[shared.macro[name]]),
                                !.cur_macro = Len(shared.lists) + 1], FALSE)

\* self.current_job_steps.append({"type": "call_macro", "value": name})
add_macro_to_job ==
    /\ Len(current_job_steps) < MaxSteps
    /\ Len(shared.steps) < MaxObjects
    /\ \E name \in DOMAIN macros :
          Editor([shared EXCEPT !.steps = Append(@, CM(name)),
                                !.lists[shared.cur_job] =
                                    Append(@, Len(shared.steps) + 1)], FALSE)

\* self.engine.jobs[name] = self.current_job_steps; self.engine.save_all()
save_job ==
    \E name \in {<<"j">>} :
        Editor([shared EXCEPT !.job = (name :> shared.cur_job) @@ @], TRUE)

\* self.current_job_steps = self.engine.jobs.get(name, [])
load_job ==
    \E name \in DOMAIN jobs :
        /\ shared.cur_job /= shared.job[name]
        /\ Editor([shared EXCEPT !.cur_job = shared.job[name]], FALSE)

\* the objects after _load: component a and assembly line j, each a list of
\* its own, and the empty list of each editor
Heap0 ==
    [steps |-> <<AT("key", <<"1">>), CM(<<"a">>)>>,
     lists |-> << <<1>>, <<2>>, <<>>, <<>> >>,
     macro |-> (<<"a">> :> 1),
     job |-> (<<"j">> :> 2),
     cur_macro |-> 3,
     cur_job |-> 4]

InitEdit ==
    /\ shared = Heap0
    /\ macros = [n \in DOMAIN Heap0.macro |-> ListOf(Heap0, Heap0.macro[n])]
    /\ jobs = [n \in DOMAIN Heap0.job |-> ListOf(Heap0, Heap0.job[n])]
    /\ current_macro = <<>>
    /\ current_job_steps = <<>>
    /\ btn_emergency_stop_macro = "disabled"
    /\ images = Images0
    /\ archives = <<>>
    /\ scratch = {}
    /\ saved_macros = Document(macros)
    /\ saved_jobs = Document(jobs)
    /\ clock = 0
    /\ result = NoResult
    /\ calls = 0
    /\ pkg_ops = <<>>
    /\ tree = <<>>
    /\ wait = WaitIdle
    /\ ShopIdle
    /\ context = <<>>
    /\ is_running = FALSE
    /\ btn_emergency_stop = "disabled"
    /\ phase = [w \in Runs |-> "idle"]
    /\ i = [w \in Runs |-> 1]
    /\ loop_stack = [w \in Runs |-> <<>>]
    /\ m_name = [w \in Runs |-> <<>>]
    /\ idx = [w \in Runs |-> 1]
    /\ trace = [w \in Runs |-> <<>>]
    /\ log = <<>>
    /\ stopped = [w \in Runs |-> -1]
    /\ raising = {}

NextEdit ==
    \/ add_step
    \/ on_prop_change
    \/ delete_steps
    \/ move_step
    \/ save_macro
    \/ load_macro
    \/ add_macro_to_job
    \/ save_job
    \/ load_job

\* a session in the two editors
SpecEdit == InitEdit /\ [][NextEdit]_vars

(* ------------------------ claims about the editors --------------------- *)

\* C39: a step that does not write the documents (an edit of a working
\* list, or a load) changes no entry of either store, and the stores always
\* equal the documents last written.
C39_StoreChangesOnlyBySave ==
    [][ /\ (saved_macros' = saved_macros /\ saved_jobs' = saved_jobs)
            => (macros' = macros /\ jobs' = jobs)
        /\ saved_macros' = Document(macros')
        /\ saved_jobs' = Document(jobs') ]_vars

====
